---- MODULE Spec2Model ----
(***************************************************************************)
(* bench_checklist: the shared-state coordinator (src/app.rs) driven by    *)
(* the background poller (src/main.rs polling_loop) and the interactive    *)
(* caller (tray menu and settings window), over the configuration model    *)
(* (src/config.rs), the check dispatcher (src/checkers/mod.rs) and the     *)
(* remediator (src/fixer.rs).                                              *)
(***************************************************************************)
EXTENDS Integers, Sequences, FiniteSets, TLC

(* ---- bounds of the model ---- *)
\* number of commands the interactive caller issues in one behaviour
MaxCommands == 2
\* number of run_checks cycles started in one behaviour
MaxCycles == 2
\* length of the check lists the dispatcher is given
MaxChecks == 2
\* number of commands issued in one behaviour of the persistence specification
MaxFileCommands == 3

(* ---- finite domains the inputs are drawn from ---- *)
Threads == {"poller", "ui"}
NoThread == "none"
ScenarioIds == {"gaming", "productivity", "imported"}
CheckIds == {"power_plan", "game_mode"}
PollInputs == {0, 10}

(* ---- src/config.rs: data ---- *)
CheckConfig(id, ty, en) == [id |-> id, check_type |-> ty, enabled |-> en]

\* the checks the editor and the library hand to add_check and update_check
CheckInputs == { CheckConfig("power_plan", "PowerMode", TRUE),
                 CheckConfig("game_mode", "RegistryDword", TRUE),
                 CheckConfig("power_plan", "PowerScheme", FALSE) }

create_gaming_scenario ==
    [name |-> "Gaming Benchmarks", poll_interval_seconds |-> 5, notify_on_drift |-> TRUE,
     checks |-> << CheckConfig("power_plan", "PowerScheme", TRUE) >>]

create_productivity_scenario ==
    [name |-> "Productivity", poll_interval_seconds |-> 15, notify_on_drift |-> FALSE,
     checks |-> << CheckConfig("power_plan", "PowerScheme", TRUE) >>]

create_cpu_scenario ==
    [name |-> "CPU Benchmarks", poll_interval_seconds |-> 10, notify_on_drift |-> TRUE,
     checks |-> << CheckConfig("power_plan", "PowerScheme", TRUE) >>]

create_gpu_scenario ==
    [name |-> "GPU Benchmarks", poll_interval_seconds |-> 5, notify_on_drift |-> TRUE,
     checks |-> << CheckConfig("power_plan", "PowerScheme", TRUE) >>]

\* a scenario read from an export file by the settings window's import
ImportedScenario ==
    [name |-> "Imported", poll_interval_seconds |-> 10, notify_on_drift |-> TRUE,
     checks |-> << CheckConfig("game_mode", "RegistryDword", FALSE) >>]

\* impl Default for Config: the four built-in scenarios (each reduced to its
\* first check)
DefaultConfig ==
    [root |-> [version |-> 2,
               default_scenario |-> "gaming",
               scenarios |-> ("gaming" :> create_gaming_scenario
                              @@ "cpu_benchmark" :> create_cpu_scenario
                              @@ "gpu_benchmark" :> create_gpu_scenario
                              @@ "productivity" :> create_productivity_scenario)],
     active_scenario |-> "gaming"]

\* documents another program may leave at the configuration path
ExternalDocs ==
    { [version |-> 2, default_scenario |-> "productivity",
       scenarios |-> DefaultConfig.root.scenarios],
      [version |-> 2, default_scenario |-> "missing",
       scenarios |-> DefaultConfig.root.scenarios] }

(* ---- src/config.rs: operations ---- *)
\* Config::get_active_scenario_data(..).is_ok()
ActiveResolves(cfg) == cfg.active_scenario \in DOMAIN cfg.root.scenarios

\* Config::get_scenario_checks, with the caller's unwrap_or_default
get_scenario_checks(cfg) ==
    IF ActiveResolves(cfg) THEN cfg.root.scenarios[cfg.active_scenario].checks ELSE << >>

\* mutant: the flag is not read from the scenario
notify_on_drift_default(cfg) == TRUE

\* Config::get_notify_on_drift
get_notify_on_drift(cfg) ==
    IF ActiveResolves(cfg) THEN cfg.root.scenarios[cfg.active_scenario].notify_on_drift ELSE TRUE

get_poll_interval(cfg) ==
    IF ActiveResolves(cfg) THEN cfg.root.scenarios[cfg.active_scenario].poll_interval_seconds ELSE 10

\* no file at the path
NoFile == [absent |-> TRUE]

\* text at the path that serde_json cannot read as either schema: not JSON,
\* or what a write that failed part-way left behind
Garbage == [garbage |-> TRUE]

\* a document in the legacy flat schema (ConfigV1)
LegacyDoc ==
    [poll_interval_seconds |-> 10, notify_on_drift |-> TRUE,
     checks |-> << CheckConfig("power_plan", "PowerScheme", TRUE) >>]

\* the fields serde needs to read a document as ConfigV2, and as ConfigV1
IsV2(doc) == {"version", "default_scenario", "scenarios"} \subseteq DOMAIN doc

IsV1(doc) == {"poll_interval_seconds", "notify_on_drift", "checks"} \subseteq DOMAIN doc

\* mutant: load does not validate the default scenario
LoadNotValidated(doc) == TRUE

\* the validation of Config::load: the default scenario must be a key
LoadValid(doc) == doc.default_scenario \in DOMAIN doc.scenarios

\* mutant: the migration fills in the settings of a new scenario
migrate_v1_fresh(v1) ==
    [version |-> 2,
     default_scenario |-> "default",
     scenarios |-> ("default" :> [name |-> "Default",
                                  poll_interval_seconds |-> 10,
                                  notify_on_drift |-> TRUE,
                                  checks |-> v1.checks])]

migrate_v1_to_v2(v1) ==
    [version |-> 2,
     default_scenario |-> "default",
     scenarios |-> ("default" :> [name |-> "Default",
                                  poll_interval_seconds |-> v1.poll_interval_seconds,
                                  notify_on_drift |-> v1.notify_on_drift,
                                  checks |-> v1.checks])]

\* mutant: what cannot be read is replaced by the built-in root, as
\* load_or_default does
ParseOrDefault(doc) ==
    IF {"version", "default_scenario", "scenarios"} \subseteq DOMAIN doc
    THEN [ok |-> TRUE, root |-> doc]
    ELSE [ok |-> TRUE,
          root |-> [version |-> 2, default_scenario |-> "gaming",
                    scenarios |-> ("gaming" :> create_gaming_scenario)]]

\* read_to_string, then serde_json::from_str::<ConfigRoot> (untagged: V2 is
\* tried first, then V1), then the migration of a V1 root
Parse(doc) ==
    IF IsV2(doc) THEN [ok |-> TRUE, root |-> doc]
    ELSE IF IsV1(doc) THEN [ok |-> TRUE, root |-> migrate_v1_to_v2(doc)]
    ELSE [ok |-> FALSE]

\* Config::load: Ok(config) or Err
Load(doc) ==
    IF Parse(doc).ok /\ LoadValid(Parse(doc).root)
    THEN [ok |-> TRUE,
          config |-> [root |-> Parse(doc).root,
                      active_scenario |-> Parse(doc).root.default_scenario]]
    ELSE [ok |-> FALSE]

\* mutant: the document keeps the default scenario of the in-memory root
SaveKeepsDefault(cfg) ==
    [version |-> cfg.root.version, default_scenario |-> cfg.root.default_scenario,
     scenarios |-> cfg.root.scenarios]

\* Config::save: the document written has default_scenario = active_scenario
Save(cfg) ==
    [version |-> cfg.root.version, default_scenario |-> cfg.active_scenario,
     scenarios |-> cfg.root.scenarios]

\* mutant: the backup is copied after the new content is written
BackupAfterWrite(prior, written) == written

\* Config::save: fs::copy(path, backup_path) runs before fs::write(path, content)
BackupCopy(prior, written) == prior

\* what the file system does to one call of Config::save
FsOutcomes == {"ok", "copy_fails", "write_fails"}

\* mutant: a failed backup copy does not stop the save
CopyFailureIgnored(io) == FALSE

\* fs::copy(..).with_context(..)?: a failed copy returns from save
CopyFailureAborts(io) == io = "copy_fails"

\* Config::save of cfg over the document doc, beside the backup bak, under one
\* outcome of the file system: the Result, and what the path and the backup
\* sibling hold afterwards. A copy or a write that fails leaves its target as
\* it was or unreadable.
SaveResults(cfg, doc, bak, io) ==
    LET copied == IF doc = NoFile THEN {bak}
                  ELSE IF io = "copy_fails" THEN {bak, Garbage}
                  ELSE {BackupCopy(doc, Save(cfg))}
    IN IF doc # NoFile /\ CopyFailureAborts(io)
       THEN {[ok |-> FALSE, file |-> doc, backup |-> b] : b \in copied}
       ELSE IF io = "write_fails"
       THEN {[ok |-> FALSE, file |-> f, backup |-> b] : f \in {doc, Garbage}, b \in copied}
       ELSE {[ok |-> TRUE, file |-> Save(cfg), backup |-> b] : b \in copied}

(* ---- src/checkers/mod.rs ---- *)
CheckResult(id, passed) == [id |-> id, passed |-> passed]

\* mutant: disabled checks are dispatched too
EnabledFilterAll(c) == TRUE

\* the filter of run_all_checks: the checks that are dispatched
EnabledFilter(c) == c.enabled

Dispatched(checks) == SelectSeq(checks, EnabledFilter)

\* mutant: evaluation stops at the first probe that does not pass
run_all_checks_abort(checks, outcome) ==
    LET d == Dispatched(checks)
        stop == IF \E i \in 1..Len(d) : ~outcome[i]
                THEN CHOOSE i \in 1..Len(d) : ~outcome[i] /\ \A j \in 1..(i - 1) : outcome[j]
                ELSE Len(d)
    IN [i \in 1..stop |-> CheckResult(d[i].id, outcome[i])]

\* run_all_checks under one outcome of the probes (outcome[i] = probe i passed)
run_all_checks(checks, outcome) ==
    [i \in 1..Len(Dispatched(checks)) |-> CheckResult(Dispatched(checks)[i].id, outcome[i])]

PassedCount(results) == Cardinality({i \in 1..Len(results) : results[i].passed})

\* mutant: the passed count is compared with zero first
from_results_zero_first(results) ==
    IF PassedCount(results) = 0 THEN "AllFailed"
    ELSE IF PassedCount(results) = Len(results) THEN "AllPassed"
    ELSE "SomeFailed"

from_results(results) ==
    IF Len(results) = 0 THEN "AllPassed"
    ELSE IF PassedCount(results) = Len(results) THEN "AllPassed"
    ELSE IF PassedCount(results) = 0 THEN "AllFailed"
    ELSE "SomeFailed"

(* ---- src/checkers: the probes ---- *)
\* the kinds run_check dispatches
CheckTypes ==
    { "PowerScheme", "PowerMode", "RegistryDword", "RegistryString", "ProcessAbsent",
      "ProcessPresent", "DisplayResolution", "DisplayRefreshRate", "HdrEnabled" }

\* the kinds whose probe takes a parameter of the check (registry path and key,
\* process name)
NeedsParams == { "RegistryDword", "RegistryString", "ProcessAbsent", "ProcessPresent" }

\* what a read of the operating system returns: a value, or an error
Reads == { "0", "1", "err" }

\* the input of one probe: whether the parameters of the check are present and
\* valid, the expected value, and what the read (and check_hdr's fallback read)
\* of the operating system returns
ProbeInput(params_ok, expected, first, second) ==
    [params_ok |-> params_ok, expected |-> expected, first |-> first, second |-> second]

ProbeInputs(ty) ==
    IF ty = "HdrEnabled"
    THEN { ProbeInput(TRUE, e, f, g) : e \in {"0", "1"}, f \in Reads, g \in Reads }
    ELSE { ProbeInput(TRUE, "1", f, "err") : f \in Reads }
         \cup (IF ty \in NeedsParams THEN { ProbeInput(FALSE, "1", "err", "err") } ELSE {})

\* CheckResult::pass, CheckResult::fail, CheckResult::error
pass(id, current) ==
    [id |-> id, passed |-> TRUE, current_value |-> current, message |-> "is correctly set"]

fail(id, current) ==
    [id |-> id, passed |-> FALSE, current_value |-> current, message |-> "expected, got"]

error(id, cause) ==
    [id |-> id, passed |-> FALSE, current_value |-> "ERROR", message |-> cause]

\* power_plan::check
power_plan_check(id, input) ==
    IF input.first = "err" THEN error(id, "Failed to get active power scheme")
    ELSE IF input.first = input.expected THEN pass(id, input.first)
    ELSE fail(id, input.first)

check_power_mode(id, input) ==
    IF input.first = "err" THEN error(id, "Failed to get power mode")
    ELSE IF input.first = input.expected THEN pass(id, input.first)
    ELSE fail(id, input.first)

\* registry::check_dword
check_dword(id, input) ==
    IF ~input.params_ok THEN error(id, "Missing registry_path in config")
    ELSE IF input.first = "err" THEN error(id, "Key not found")
    ELSE IF input.first = input.expected THEN pass(id, input.first)
    ELSE fail(id, input.first)

check_string(id, input) ==
    IF ~input.params_ok THEN error(id, "Missing registry_path in config")
    ELSE IF input.first = "err" THEN error(id, "Key not found")
    ELSE IF input.first = input.expected THEN pass(id, input.first)
    ELSE fail(id, input.first)

\* processes::check_absent: the read says whether the process is running ("1")
check_absent(id, input) ==
    IF ~input.params_ok THEN error(id, "Missing process_name in config")
    ELSE IF input.first = "err" THEN error(id, "Failed to enumerate processes")
    ELSE IF input.first = "1" THEN fail(id, "Running")
    ELSE pass(id, "Not Running")

check_present(id, input) ==
    IF ~input.params_ok THEN error(id, "Missing process_name in config")
    ELSE IF input.first = "err" THEN error(id, "Failed to enumerate processes")
    ELSE IF input.first = "1" THEN pass(id, "Running")
    ELSE fail(id, "Not Running")

\* display::check_resolution
check_resolution(id, input) ==
    IF input.first = "err" THEN error(id, "Failed to enumerate display settings")
    ELSE IF input.first = input.expected THEN pass(id, input.first)
    ELSE fail(id, input.first)

\* display::check_refresh_rate: hz >= expected_hz
check_refresh_rate(id, input) ==
    IF input.first = "err" THEN error(id, "Failed to enumerate display settings")
    ELSE IF input.first = "1" \/ input.first = input.expected THEN pass(id, input.first)
    ELSE fail(id, input.first)

\* display::check_hdr_registry: GlobalHDRState, then EnableHDRForDisplay, then false
check_hdr_registry(input) ==
    IF input.first # "err" THEN input.first = "1"
    ELSE IF input.second # "err" THEN input.second = "1"
    ELSE FALSE

check_hdr(id, input) ==
    LET hdr_enabled == check_hdr_registry(input)
        current == IF hdr_enabled THEN "Enabled" ELSE "Disabled"
    IN IF (input.expected = "1" /\ hdr_enabled) \/ (input.expected = "0" /\ ~hdr_enabled)
       THEN pass(id, current)
       ELSE fail(id, current)

run_check(cfg, input) ==
    CASE cfg.check_type = "PowerScheme" -> power_plan_check(cfg.id, input)
      [] cfg.check_type = "PowerMode" -> check_power_mode(cfg.id, input)
      [] cfg.check_type = "RegistryDword" -> check_dword(cfg.id, input)
      [] cfg.check_type = "RegistryString" -> check_string(cfg.id, input)
      [] cfg.check_type = "ProcessAbsent" -> check_absent(cfg.id, input)
      [] cfg.check_type = "ProcessPresent" -> check_present(cfg.id, input)
      [] cfg.check_type = "DisplayResolution" -> check_resolution(cfg.id, input)
      [] cfg.check_type = "DisplayRefreshRate" -> check_refresh_rate(cfg.id, input)
      [] cfg.check_type = "HdrEnabled" -> check_hdr(cfg.id, input)

RECURSIVE ProbeSeqs(_)
\* the probe inputs of a list of dispatched checks, one per check
ProbeSeqs(d) ==
    IF d = << >> THEN { << >> }
    ELSE { << p >> \o rest : p \in ProbeInputs(Head(d).check_type), rest \in ProbeSeqs(Tail(d)) }

\* the check lists a scenario is loaded with
CheckLists ==
    UNION { [1..n -> CheckInputs] : n \in 0..MaxChecks }
    \cup { << CheckConfig("power_plan", ty, TRUE) >> : ty \in CheckTypes }

(* ---- src/app.rs: the drift loop of run_checks ---- *)
EmptyMap == [x \in {} |-> TRUE]

\* previous_status.get(id).copied().unwrap_or(true)
WasPassing(prev, id) == IF id \in DOMAIN prev THEN prev[id] ELSE TRUE

\* HashMap::insert
Insert(m, k, v) == [x \in (DOMAIN m) \cup {k} |-> IF x = k THEN v ELSE m[x]]

\* if was_passing && !result.passed { drifted.push(result) }
IsDrift(was_passing, passed) == was_passing /\ ~passed

RECURSIVE DriftLoop(_, _, _, _)
\* drifted holds references into results: the positions of the results pushed
DriftLoop(results, i, prev, drifted) ==
    IF i > Len(results) THEN [previous_status |-> prev, drifted |-> drifted]
    ELSE DriftLoop(results, i + 1,
                   Insert(prev, results[i].id, results[i].passed),
                   IF IsDrift(WasPassing(prev, results[i].id), results[i].passed)
                   THEN Append(drifted, i) ELSE drifted)

\* mutant: the notify flag is not consulted
ShouldNotifyNoFlag(flag, drifted) == drifted # << >>

\* if inner.notify_on_drift && !drifted.is_empty() { notify_drift(&drifted) }
ShouldNotify(flag, drifted) == flag /\ drifted # << >>

\* the list handed to notifications::notify_drift
DriftedResults(results, drifted) == [k \in 1..Len(drifted) |-> results[drifted[k]]]

(* ---- src/fixer.rs ---- *)
\* fix_all: the checks handed to fix_check, in the checks' order
FixAllSelect(c, failing_ids) == c.id \in failing_ids /\ c.enabled

fix_all(configs, failing_ids) ==
    LET Sel(c) == FixAllSelect(c, failing_ids) IN SelectSeq(configs, Sel)

FailingIds(results) == {results[i].id : i \in {j \in 1..Len(results) : ~results[j].passed}}

\* on_fix_all_clicked: the filter that builds failed_checks
BridgeFixSelect(c, results) == \E i \in 1..Len(results) : results[i].id = c.id /\ ~results[i].passed

BridgeFailedChecks(checks, results) ==
    LET Sel(c) == BridgeFixSelect(c, results) IN SelectSeq(checks, Sel)

\* Option::None of a CheckConfig field, and of its registry_path
Absent == "absent"

NoPath == << >>

\* a CheckConfig with the fields the fixer reads; a registry path is the pair
\* of its root spelling and the rest
FixConfig(id, ty, en, path, key, process, expected) ==
    [id |-> id, check_type |-> ty, enabled |-> en, registry_path |-> path,
     registry_key |-> key, process_name |-> process, expected_value |-> expected]

\* the checks the fixer is handed: every kind, registry paths under every root
\* spelling, under a root the program does not know and without a path, values
\* the setters accept and reject, enabled and disabled
FixInputs ==
    { FixConfig("power_plan", "PowerScheme", TRUE, NoPath, Absent, Absent, "high_performance"),
      FixConfig("power_mode", "PowerMode", TRUE, NoPath, Absent, Absent, "turbo"),
      FixConfig("power_mode", "PowerMode", FALSE, NoPath, Absent, Absent, Absent),
      FixConfig("game_mode", "RegistryDword", TRUE, <<"HKCU", "GameBar">>,
                "AutoGameModeEnabled", Absent, "1"),
      FixConfig("hw_sched", "RegistryDword", TRUE, <<"HKLM", "GraphicsDrivers">>,
                "HwSchMode", Absent, "two"),
      FixConfig("theme", "RegistryString", TRUE, <<"HKEY_LOCAL_MACHINE", "Themes">>,
                "Current", Absent, "dark"),
      FixConfig("theme", "RegistryString", TRUE, <<"HKEY_CURRENT_USER", "Themes">>,
                Absent, Absent, "dark"),
      FixConfig("classes", "RegistryString", TRUE, <<"HKCR", "Classes">>,
                "Default", Absent, Absent),
      FixConfig("game_mode", "RegistryDword", TRUE, NoPath, "AutoGameModeEnabled", Absent, "1"),
      FixConfig("no_discord", "ProcessAbsent", TRUE, NoPath, Absent, "discord.exe", Absent),
      FixConfig("obs", "ProcessPresent", TRUE, NoPath, Absent, "obs64.exe", Absent),
      FixConfig("resolution", "DisplayResolution", TRUE, NoPath, Absent, Absent, "1920x1080"),
      FixConfig("refresh", "DisplayRefreshRate", TRUE, NoPath, Absent, Absent, "144"),
      FixConfig("no_discord", "ProcessAbsent", FALSE, NoPath, Absent, "discord.exe", Absent),
      FixConfig("hdr", "HdrEnabled", TRUE, NoPath, Absent, Absent, "0") }

\* what the operating system does to the one call a fix makes: it succeeds, it
\* fails, the overlay API is missing, no instance of the process runs, an
\* instance runs and cannot be opened or terminated, or two instances run
OsOutcomes(ty) ==
    CASE ty \in {"PowerScheme", "RegistryDword", "RegistryString"} -> {"ok", "err"}
      [] ty = "PowerMode" -> {"ok", "err", "unavailable"}
      [] ty = "ProcessAbsent" ->
            {"ok", "err", "none_running", "denied", "two_running", "one_of_two"}
      [] OTHER -> {"ok"}

\* registry::parse_root_key: the root of a path, Absent for any other prefix
parse_root_key(path) ==
    IF path[1] \in {"HKCU", "HKEY_CURRENT_USER"} THEN "HKEY_CURRENT_USER"
    ELSE IF path[1] \in {"HKLM", "HKEY_LOCAL_MACHINE"} THEN "HKEY_LOCAL_MACHINE"
    ELSE Absent

\* mutant: only the short spelling of the machine root is recognised
requires_admin_short(path) == path[1] = "HKLM"

\* registry::requires_admin
requires_admin(path) == path[1] \in {"HKLM", "HKEY_LOCAL_MACHINE"}

Direct == [kind |-> "Direct", reason |-> ""]

RequiresAdmin == [kind |-> "RequiresAdmin", reason |-> ""]

Manual(reason) == [kind |-> "Manual", reason |-> reason]

get_fix_capability(cfg) ==
    CASE cfg.check_type \in {"PowerScheme", "PowerMode"} -> Direct
      [] cfg.check_type \in {"RegistryDword", "RegistryString"} ->
            IF cfg.registry_path # NoPath
            THEN IF requires_admin(cfg.registry_path) THEN RequiresAdmin ELSE Direct
            ELSE Manual("No registry path configured")
      [] cfg.check_type = "ProcessAbsent" -> Direct
      [] cfg.check_type = "ProcessPresent" -> Manual("Cannot auto-start applications")
      [] cfg.check_type \in {"DisplayResolution", "DisplayRefreshRate", "HdrEnabled"} ->
            Manual("Display settings must be changed in Windows Settings")

\* Result<String, String> of a fix, with whether the call reached the
\* operating system
FixOk(message) == [ok |-> TRUE, message |-> message, attempted |-> TRUE]

FixErr(message, attempted) == [ok |-> FALSE, message |-> message, attempted |-> attempted]

unwrap_or(value, default) == IF value = Absent THEN default ELSE value

\* str::to_lowercase on the texts the checks carry
to_lowercase(text) ==
    CASE text = "HIGH_PERFORMANCE" -> "high_performance"
      [] text = "Best" -> "best"
      [] OTHER -> text

\* str::parse::<u32>: decimal digits with an optional leading plus sign
parse_u32(text) ==
    CASE text = "0" -> [ok |-> TRUE, value |-> 0]
      [] text \in {"1", "01", "+1"} -> [ok |-> TRUE, value |-> 1]
      [] text = "2" -> [ok |-> TRUE, value |-> 2]
      [] OTHER -> [ok |-> FALSE, value |-> 0]

\* u32::to_string
u32_to_string(value) ==
    CASE value = 0 -> "0"
      [] value = 1 -> "1"
      [] value = 2 -> "2"

\* the keys power_plan::set_power_scheme and set_power_mode match
SchemeKeys ==
    {"high_performance", "high", "ultimate_performance", "ultimate", "balanced",
     "power_saver", "saver"}

ModeKeys ==
    {"best_performance", "best", "max", "better_performance", "better", "high",
     "balanced", "default", "better_battery", "battery", "saver"}

fix_power_scheme(cfg, os) ==
    IF to_lowercase(unwrap_or(cfg.expected_value, "high_performance")) \notin SchemeKeys
    THEN FixErr("Unknown power scheme", FALSE)
    ELSE IF os = "ok" THEN FixOk("Set power plan")
    ELSE FixErr("Failed to set power scheme", TRUE)

fix_power_mode(cfg, os) ==
    IF os = "unavailable" THEN FixErr("Power mode API not available", FALSE)
    ELSE IF to_lowercase(unwrap_or(cfg.expected_value, "best_performance")) \notin ModeKeys
    THEN FixErr("Unknown power mode", FALSE)
    ELSE IF os = "ok" THEN FixOk("Set power mode")
    ELSE FixErr("Failed to set power mode", TRUE)

\* registry::write_dword and write_string: the root, then the open and the set
write_value(path, os) ==
    IF parse_root_key(path) = Absent THEN FixErr("Invalid registry path", FALSE)
    ELSE IF os = "ok" THEN FixOk("Set value")
    ELSE FixErr("Access denied - admin required", TRUE)

fix_registry_dword(cfg, os) ==
    IF cfg.registry_path = NoPath THEN FixErr("No registry path configured", FALSE)
    ELSE IF cfg.registry_key = Absent THEN FixErr("No registry key configured", FALSE)
    ELSE IF ~parse_u32(unwrap_or(cfg.expected_value, "0")).ok
    THEN FixErr("Invalid DWORD value", FALSE)
    ELSE write_value(cfg.registry_path, os)

fix_registry_string(cfg, os) ==
    IF cfg.registry_path = NoPath THEN FixErr("No registry path configured", FALSE)
    ELSE IF cfg.registry_key = Absent THEN FixErr("No registry key configured", FALSE)
    ELSE write_value(cfg.registry_path, os)

\* the instances of the process that run when the fix is made, each with what
\* OpenProcess(PROCESS_TERMINATE) and TerminateProcess do to it
Instances(os) ==
    CASE os = "ok" -> <<"killed">>
      [] os = "denied" -> <<"refused">>
      [] os = "two_running" -> <<"killed", "killed">>
      [] os = "one_of_two" -> <<"refused", "killed">>
      [] OTHER -> << >>

RECURSIVE TerminateLoopAttempts(_, _, _)
\* mutant: terminated_count counts every instance found, terminated or not
TerminateLoopAttempts(instances, i, terminated_count) ==
    IF i > Len(instances) THEN terminated_count
    ELSE TerminateLoopAttempts(instances, i + 1, terminated_count + 1)

RECURSIVE TerminateLoop(_, _, _)
\* the loop of terminate_process over the instances whose name matches
TerminateLoop(instances, i, terminated_count) ==
    IF i > Len(instances) THEN terminated_count
    ELSE IF instances[i] = "killed"
    THEN TerminateLoop(instances, i + 1, terminated_count + 1)
    ELSE TerminateLoop(instances, i + 1, terminated_count)

\* processes::terminate_process: Err when the enumeration fails, else the
\* number of instances terminated; an instance that cannot be opened or
\* terminated is passed over
terminate_process(os) ==
    IF os = "err" THEN [ok |-> FALSE, count |-> 0]
    ELSE [ok |-> TRUE, count |-> TerminateLoop(Instances(os), 1, 0)]

fix_process_absent(cfg, os) ==
    IF cfg.process_name = Absent THEN FixErr("No process name configured", FALSE)
    ELSE IF ~terminate_process(os).ok THEN FixErr("Failed to enumerate processes", TRUE)
    ELSE IF terminate_process(os).count > 0
    THEN FixOk(<<"Terminated", terminate_process(os).count>>)
    ELSE FixOk(<<"is not running">>)

\* a FixResult, with the check, its capability and what the operating system
\* did kept beside it
FixResult(cfg, os, success, message, attempted) ==
    [check_id |-> cfg.id, success |-> success, message |-> message,
     attempted |-> attempted, check |-> cfg, os |-> os,
     capability |-> get_fix_capability(cfg)]

attempt_fix(cfg, os) ==
    LET result ==
          CASE cfg.check_type = "PowerScheme" -> fix_power_scheme(cfg, os)
            [] cfg.check_type = "PowerMode" -> fix_power_mode(cfg, os)
            [] cfg.check_type = "RegistryDword" -> fix_registry_dword(cfg, os)
            [] cfg.check_type = "RegistryString" -> fix_registry_string(cfg, os)
            [] cfg.check_type = "ProcessAbsent" -> fix_process_absent(cfg, os)
            [] cfg.check_type = "ProcessPresent" ->
                  FixErr("Cannot auto-start applications", FALSE)
            [] cfg.check_type \in {"DisplayResolution", "DisplayRefreshRate", "HdrEnabled"} ->
                  FixErr("Display settings cannot be auto-fixed", FALSE)
    IN FixResult(cfg, os, result.ok, result.message, result.attempted)

fix_check(cfg, os) ==
    IF get_fix_capability(cfg).kind = "Manual"
    THEN FixResult(cfg, os, FALSE, <<"Cannot auto-fix", get_fix_capability(cfg).reason>>, FALSE)
    ELSE attempt_fix(cfg, os)

RECURSIVE FixLoopAbort(_, _, _, _, _)
\* mutant: the loop of fix_all breaks at the first fix that does not succeed
FixLoopAbort(configs, failing_ids, os, i, results) ==
    IF i > Len(configs) THEN results
    ELSE IF FixAllSelect(configs[i], failing_ids)
    THEN IF fix_check(configs[i], os[i]).success
         THEN FixLoopAbort(configs, failing_ids, os, i + 1,
                           Append(results, fix_check(configs[i], os[i])))
         ELSE Append(results, fix_check(configs[i], os[i]))
    ELSE FixLoopAbort(configs, failing_ids, os, i + 1, results)

RECURSIVE FixLoop(_, _, _, _, _)
\* the loop of fix_all from position i on: the results pushed, where os[i] is
\* what the operating system does to the fix of configs[i]
FixLoop(configs, failing_ids, os, i, results) ==
    IF i > Len(configs) THEN results
    ELSE IF FixAllSelect(configs[i], failing_ids)
    THEN FixLoop(configs, failing_ids, os, i + 1,
                 Append(results, fix_check(configs[i], os[i])))
    ELSE FixLoop(configs, failing_ids, os, i + 1, results)

\* mutant: get_fix_counts counts a failing check whether it is enabled or not
FixCountsSelectAny(c, failing_ids) == c.id \in failing_ids

\* get_fix_counts: the condition under which a check is counted
FixCountsSelect(c, failing_ids) == c.id \in failing_ids /\ c.enabled

NoCounts == [direct |-> 0, admin |-> 0, manual |-> 0]

RECURSIVE FixCountsLoop(_, _, _, _)
\* the loop of get_fix_counts from position i on
FixCountsLoop(configs, failing_ids, i, counts) ==
    IF i > Len(configs) THEN counts
    ELSE IF FixCountsSelect(configs[i], failing_ids)
    THEN FixCountsLoop(configs, failing_ids, i + 1,
            CASE get_fix_capability(configs[i]).kind = "Direct" ->
                    [counts EXCEPT !.direct = @ + 1]
              [] get_fix_capability(configs[i]).kind = "RequiresAdmin" ->
                    [counts EXCEPT !.admin = @ + 1]
              [] get_fix_capability(configs[i]).kind = "Manual" ->
                    [counts EXCEPT !.manual = @ + 1])
    ELSE FixCountsLoop(configs, failing_ids, i + 1, counts)

get_fix_counts(configs, failing_ids) == FixCountsLoop(configs, failing_ids, 1, NoCounts)

RECURSIVE OsSeqs(_)
\* every outcome of the operating system for a list of checks
OsSeqs(configs) ==
    IF configs = << >> THEN { << >> }
    ELSE { <<o>> \o rest : o \in OsOutcomes(Head(configs).check_type),
                           rest \in OsSeqs(Tail(configs)) }

\* the check lists the fixer is handed
FixLists == UNION { [1..n -> FixInputs] : n \in 0..MaxChecks }

\* identifiers a result set may name as failing: those of the checks, and one
\* of a check that is no longer there
FixIds(configs) == {configs[i].id : i \in 1..Len(configs)} \cup {"unknown"}

(* ---- the settings of the operating system, the fixes that write them and
        the checks that read them ---- *)
\* power_plan.rs 44-48: the well-known schemes, and one the program does not know
SchemeGuids ==
    {"GUID_HIGH_PERFORMANCE", "GUID_BALANCED", "GUID_POWER_SAVER",
     "GUID_ULTIMATE_PERFORMANCE", "GUID_OTHER_SCHEME"}

\* power_plan.rs 161-164: the overlay modes, and one the program does not know
ModeGuids ==
    {"GUID_POWER_MODE_BETTER_BATTERY", "GUID_POWER_MODE_BALANCED",
     "GUID_POWER_MODE_BETTER_PERFORMANCE", "GUID_POWER_MODE_BEST_PERFORMANCE",
     "GUID_OTHER_MODE"}

\* the value under the check's registry path and key: none, a REG_DWORD or a REG_SZ
NoValue == [kind |-> "none", dword |-> 0, sz |-> ""]

Dword(data) == [kind |-> "dword", dword |-> data, sz |-> ""]

Sz(data) == [kind |-> "sz", dword |-> 0, sz |-> data]

RegistryValues == {NoValue, Dword(0), Dword(2), Sz("light")}

DefaultSystem ==
    [scheme |-> "GUID_BALANCED", mode |-> "GUID_POWER_MODE_BALANCED", value |-> NoValue]

scheme_key(guid) ==
    CASE guid = "GUID_HIGH_PERFORMANCE" -> "high_performance"
      [] guid = "GUID_BALANCED" -> "balanced"
      [] guid = "GUID_POWER_SAVER" -> "power_saver"
      [] guid = "GUID_ULTIMATE_PERFORMANCE" -> "ultimate_performance"
      [] OTHER -> "custom"

\* mutant: every expected value accepts its own scheme only
parse_expected_exact(expected) ==
    CASE to_lowercase(expected) \in {"high_performance", "high"} -> {"high_performance"}
      [] to_lowercase(expected) \in {"ultimate_performance", "ultimate"} ->
            {"ultimate_performance"}
      [] to_lowercase(expected) = "balanced" -> {"balanced"}
      [] to_lowercase(expected) \in {"power_saver", "saver"} -> {"power_saver"}
      [] OTHER -> {"custom"}

\* power_plan::parse_expected: the scheme keys an expected value accepts
parse_expected(expected) ==
    CASE to_lowercase(expected) \in {"high_performance", "high"} ->
            {"high_performance", "ultimate_performance"}
      [] to_lowercase(expected) \in {"ultimate_performance", "ultimate"} ->
            {"ultimate_performance"}
      [] to_lowercase(expected) = "balanced" -> {"balanced"}
      [] to_lowercase(expected) \in {"power_saver", "saver"} -> {"power_saver"}
      [] OTHER -> {"custom"}

\* power_plan::check with PowerGetActiveScheme returning the active scheme
check_scheme(cfg, sys) ==
    IF scheme_key(sys.scheme) \in parse_expected(unwrap_or(cfg.expected_value, "high_performance"))
    THEN pass(cfg.id, scheme_key(sys.scheme))
    ELSE fail(cfg.id, scheme_key(sys.scheme))

\* power_plan::set_power_scheme: the scheme a key selects
set_power_scheme(scheme) ==
    CASE to_lowercase(scheme) \in {"high_performance", "high"} -> "GUID_HIGH_PERFORMANCE"
      [] to_lowercase(scheme) \in {"ultimate_performance", "ultimate"} ->
            "GUID_ULTIMATE_PERFORMANCE"
      [] to_lowercase(scheme) = "balanced" -> "GUID_BALANCED"
      [] to_lowercase(scheme) \in {"power_saver", "saver"} -> "GUID_POWER_SAVER"

power_mode_key(guid) ==
    CASE guid = "GUID_POWER_MODE_BEST_PERFORMANCE" -> "best_performance"
      [] guid = "GUID_POWER_MODE_BETTER_PERFORMANCE" -> "better_performance"
      [] guid = "GUID_POWER_MODE_BALANCED" -> "balanced"
      [] guid = "GUID_POWER_MODE_BETTER_BATTERY" -> "better_battery"
      [] OTHER -> "unknown"

parse_expected_mode(expected) ==
    CASE to_lowercase(expected) \in {"best_performance", "best", "max"} -> {"best_performance"}
      [] to_lowercase(expected) \in {"better_performance", "better", "high"} ->
            {"better_performance", "best_performance"}
      [] to_lowercase(expected) \in {"balanced", "default"} -> {"balanced"}
      [] to_lowercase(expected) \in {"better_battery", "battery", "saver"} ->
            {"better_battery"}
      [] OTHER -> {"unknown"}

\* power_plan::check_power_mode with the overlay API present and its read succeeding
check_mode(cfg, sys) ==
    IF power_mode_key(sys.mode)
         \in parse_expected_mode(unwrap_or(cfg.expected_value, "best_performance"))
    THEN pass(cfg.id, power_mode_key(sys.mode))
    ELSE fail(cfg.id, power_mode_key(sys.mode))

\* power_plan::set_power_mode: the overlay mode a key selects
set_power_mode(mode) ==
    CASE to_lowercase(mode) \in {"best_performance", "best", "max"} ->
            "GUID_POWER_MODE_BEST_PERFORMANCE"
      [] to_lowercase(mode) \in {"better_performance", "better", "high"} ->
            "GUID_POWER_MODE_BETTER_PERFORMANCE"
      [] to_lowercase(mode) \in {"balanced", "default"} -> "GUID_POWER_MODE_BALANCED"
      [] to_lowercase(mode) \in {"better_battery", "battery", "saver"} ->
            "GUID_POWER_MODE_BETTER_BATTERY"

\* registry::read_dword: a REG_SZ longer than four bytes does not fit the buffer
read_dword(value) ==
    CASE value.kind = "none" -> [ok |-> FALSE, data |-> 0, error |-> "Value not found"]
      [] value.kind = "sz" -> [ok |-> FALSE, data |-> 0, error |-> "Failed to read value"]
      [] value.kind = "dword" -> [ok |-> TRUE, data |-> value.dword, error |-> ""]

\* the text before the first NUL; "<0>" stands for the character U+0000
until_nul(text) == IF text = "dark<0>mode" THEN "dark" ELSE text

\* registry::read_string: the bytes up to the first NUL as UTF-16; the four
\* bytes of a REG_DWORD read as two UTF-16 units
read_string(value) ==
    CASE value.kind = "none" -> [ok |-> FALSE, data |-> "", error |-> "Value not found"]
      [] value.kind = "sz" -> [ok |-> TRUE, data |-> until_nul(value.sz), error |-> ""]
      [] value.kind = "dword" ->
            [ok |-> TRUE, data |-> IF value.dword = 0 THEN "" ELSE "<2>", error |-> ""]

\* registry::check_dword on the value under the check's path and key
check_dword_value(cfg, sys) ==
    IF cfg.registry_path = NoPath THEN error(cfg.id, "Missing registry_path in config")
    ELSE IF cfg.registry_key = Absent THEN error(cfg.id, "Missing registry_key in config")
    ELSE IF parse_root_key(cfg.registry_path) = Absent
    THEN error(cfg.id, "Invalid registry path")
    ELSE IF ~read_dword(sys.value).ok THEN error(cfg.id, read_dword(sys.value).error)
    ELSE IF u32_to_string(read_dword(sys.value).data) = unwrap_or(cfg.expected_value, "0")
    THEN pass(cfg.id, u32_to_string(read_dword(sys.value).data))
    ELSE fail(cfg.id, u32_to_string(read_dword(sys.value).data))

\* registry::check_string on the value under the check's path and key
check_string_value(cfg, sys) ==
    IF cfg.registry_path = NoPath THEN error(cfg.id, "Missing registry_path in config")
    ELSE IF cfg.registry_key = Absent THEN error(cfg.id, "Missing registry_key in config")
    ELSE IF parse_root_key(cfg.registry_path) = Absent
    THEN error(cfg.id, "Invalid registry path")
    ELSE IF ~read_string(sys.value).ok THEN error(cfg.id, read_string(sys.value).error)
    ELSE IF read_string(sys.value).data = unwrap_or(cfg.expected_value, "")
    THEN pass(cfg.id, read_string(sys.value).data)
    ELSE fail(cfg.id, read_string(sys.value).data)

\* checkers::run_check for the four kinds a fix can write
run_check_on(cfg, sys) ==
    CASE cfg.check_type = "PowerScheme" -> check_scheme(cfg, sys)
      [] cfg.check_type = "PowerMode" -> check_mode(cfg, sys)
      [] cfg.check_type = "RegistryDword" -> check_dword_value(cfg, sys)
      [] cfg.check_type = "RegistryString" -> check_string_value(cfg, sys)

\* what a fix that succeeded has written: PowerSetActiveScheme, the overlay
\* setter, RegSetValueExW with REG_DWORD or with REG_SZ
Written(cfg, sys) ==
    CASE cfg.check_type = "PowerScheme" ->
            [sys EXCEPT !.scheme =
                set_power_scheme(unwrap_or(cfg.expected_value, "high_performance"))]
      [] cfg.check_type = "PowerMode" ->
            [sys EXCEPT !.mode =
                set_power_mode(unwrap_or(cfg.expected_value, "best_performance"))]
      [] cfg.check_type = "RegistryDword" ->
            [sys EXCEPT !.value = Dword(parse_u32(unwrap_or(cfg.expected_value, "0")).value)]
      [] cfg.check_type = "RegistryString" ->
            [sys EXCEPT !.value = Sz(unwrap_or(cfg.expected_value, ""))]

\* the checks whose fix and evaluation are compared: each kind with the
\* expected texts a configuration file may carry
WritableInputs ==
    { FixConfig("power_plan", "PowerScheme", TRUE, NoPath, Absent, Absent, e) :
        e \in {Absent, "high_performance", "high", "HIGH_PERFORMANCE", "ultimate_performance",
               "balanced", "power_saver", "turbo"} }
    \cup { FixConfig("power_mode", "PowerMode", TRUE, NoPath, Absent, Absent, e) :
             e \in {Absent, "Best", "high", "balanced", "saver", "turbo"} }
    \cup { FixConfig("game_mode", "RegistryDword", TRUE, <<"HKCU", "GameBar">>,
                     "AutoGameModeEnabled", Absent, e) :
             e \in {Absent, "0", "1", "01", "+1", "two"} }
    \cup { FixConfig("theme", "RegistryString", TRUE, <<"HKCU", "Themes">>,
                     "Current", Absent, e) :
             e \in {Absent, "dark", "", "dark<0>mode"} }

(* ---- src/main.rs: the running flag and the polling loop ---- *)
\* for _ in 0..(interval * 10): the sleep increments of one second of interval
IncrementsPerSecond == 10

\* mutant: a load of the running flag that never sees it cleared
RunningLoadStale(flag) == TRUE

\* running.load(Ordering::SeqCst)
RunningLoad(flag) == flag

\* mutant: the sleep increments do not look at the flag
ForLoopNeverReturns(flag) == FALSE

\* if !running.load(Ordering::SeqCst) { return; } ahead of every increment
ForLoopReturns(flag) == ~RunningLoad(flag)

\* mutant: signal_exit stores false
SignalExitClears == FALSE

\* self.should_exit.store(true, Ordering::SeqCst)
SignalExitStores == TRUE

(* ---- the coordinator's lock ---- *)
\* mutant: lock() returns although another thread holds the mutex
LockNotExclusive(holder) == TRUE

\* Mutex::lock returns only when no thread holds the mutex
LockAvailable(holder) == holder = NoThread

\* mutant: run_checks returns without dropping the guard
UnlockForgotten(holder) == holder

\* the MutexGuard is dropped at the end of the command
Unlock(holder) == NoThread

(* ---- state ---- *)
VARIABLES
    config,            \* AppStateInner.config
    file,              \* the document at AppStateInner.config_path
    last_results,      \* AppStateInner.last_results
    previous_status,   \* AppStateInner.previous_status
    notify_on_drift,   \* AppStateInner.notify_on_drift
    lock,              \* holder of AppState.inner's mutex
    pc,                \* position of each thread
    rc,                \* locals of each thread's run_checks call
    commands,          \* commands issued by the interactive caller so far
    cycles,            \* run_checks cycles started so far
    baseline_scenario, \* history: for each baseline entry, the scenario of the cycle that wrote it
    baseline_cycle,    \* history: the last cycle whose drift loop updated the baseline
    results_cycle,     \* history: the cycle that stored last_results
    results_scenario,  \* history: the scenario last_results were computed for
    after_switch,      \* history: no run_checks has locked since the last successful switch
    fix_log,           \* history: the checks handed to fix_check by the last fix-all
    observed,          \* what the last reader command returned
    running,           \* main.rs: the flag shared by main and polling_loop
    should_exit,       \* AppState.should_exit
    poll,              \* locals of polling_loop: the interval read, the increments slept
    halt,              \* history: what the poller did after the flag was cleared
    backup,            \* the document at the backup sibling of the configuration path
    persist,           \* history: the last save, and whether a load followed it
    probes,            \* history: the probes of the run_checks call in flight
    system             \* the settings of the operating system that the fixes write and the checks read

vars == << config, file, last_results, previous_status, notify_on_drift, lock, pc, rc,
           commands, cycles, baseline_scenario, baseline_cycle, results_cycle,
           results_scenario,
           after_switch, fix_log, observed, running, should_exit, poll, halt,
           backup, persist, probes, system >>

NoCall == [cycle |-> 0, scenario |-> "", checks |-> << >>, probed |-> << >>,
           results |-> << >>, status |-> "AllPassed", prev |-> EmptyMap,
           drifted |-> << >>, notify_calls |-> << >>, after_switch |-> FALSE]

NothingObserved == [op |-> "none", results_cycle |-> 0, baseline_cycle |-> 0]

NoPoll == [interval |-> 0, i |-> 0]

NotHalted == [observed_cleared |-> FALSE, sleeps |-> 0, cycles |-> 0]

NothingSaved ==
    [op |-> "none", io |-> "ok", prior |-> NoFile, active |-> "", scenarios |-> EmptyMap]

\* what main holds before load_config has returned
NoConfig ==
    [root |-> [version |-> 0, default_scenario |-> "", scenarios |-> EmptyMap],
     active_scenario |-> ""]

\* AppState::new on a configuration, beside the document at the path, with
\* both threads at one position; main.rs sets running before it spawns the poller
StartAt(cfg, doc, at) ==
    /\ config = cfg
    /\ file = doc
    /\ last_results = << >>
    /\ previous_status = EmptyMap
    /\ notify_on_drift = get_notify_on_drift(cfg)
    /\ running = TRUE
    /\ should_exit = FALSE
    /\ poll = NoPoll
    /\ halt = NotHalted
    /\ backup = NoFile
    /\ persist = NothingSaved
    /\ probes = << >>
    /\ system = DefaultSystem
    /\ lock = NoThread
    /\ pc = [t \in Threads |-> at]
    /\ rc = [t \in Threads |-> NoCall]
    /\ commands = 0
    /\ cycles = 0
    /\ baseline_scenario = EmptyMap
    /\ baseline_cycle = 0
    /\ results_cycle = 0
    /\ results_scenario = ""
    /\ after_switch = FALSE
    /\ fix_log = << >>
    /\ observed = NothingObserved

\* the program started: main is in its event loop, the poller at the head of its loop
StartWith(cfg, doc) == StartAt(cfg, doc, "idle")

\* AppState::new on the configuration main.rs loaded (and saved, when it was absent)
Init == StartWith(DefaultConfig, Save(DefaultConfig))

(* ---- helpers of the commands ---- *)
\* iter_mut().find(|c| c.id == id): the position of the first check with that id, 0 if none
FindCheck(checks, id) ==
    IF \E i \in 1..Len(checks) : checks[i].id = id
    THEN CHOOSE i \in 1..Len(checks) :
            checks[i].id = id /\ \A j \in 1..(i - 1) : checks[j].id # id
    ELSE 0

\* checks.retain(|c| c.id != check_id)
Retain(checks, check_id) == LET Keep(c) == c.id # check_id IN SelectSeq(checks, Keep)

\* mutant: the assignment reaches every scenario of the mapping
WithEveryScenario(cfg, scn) ==
    [cfg EXCEPT !.root.scenarios = [id \in DOMAIN cfg.root.scenarios |-> scn]]

\* scenarios.get_mut(&active_id) followed by an assignment to the scenario
WithActiveScenario(cfg, scn) ==
    [cfg EXCEPT !.root.scenarios[cfg.active_scenario] = scn]

ActiveScenario(cfg) == cfg.root.scenarios[cfg.active_scenario]

\* the interactive caller returns from a command
Return == pc' = [pc EXCEPT !["ui"] = "idle"]

\* the interactive caller is inside a command, past inner.lock()
InCommand == pc["ui"] = "cmd_lock" /\ LockAvailable(lock)

History == << baseline_scenario, baseline_cycle, results_cycle, results_scenario,
    after_switch, fix_log, observed >>

\* main.rs's flags and the poller's loop, which no coordinator command touches
Shutdown == << running, should_exit, poll, halt >>

\* the backup sibling and the record of the last save
Disk == << backup, persist >>

(* ---- the interactive caller issues a command ---- *)
CallCommand ==
    /\ pc["ui"] = "idle"
    /\ commands < MaxCommands
    /\ pc' = [pc EXCEPT !["ui"] = "cmd_lock"]
    /\ commands' = commands + 1
    /\ UNCHANGED << config, file, last_results, previous_status, notify_on_drift, lock, rc,
                    cycles, History, Shutdown, Disk, probes, system >>

(* ---- AppState::run_checks ---- *)
CallRunChecks(t) ==
    /\ pc[t] = "idle"
    /\ cycles < MaxCycles
    /\ cycles' = cycles + 1
    /\ pc' = [pc EXCEPT ![t] = "rc_lock"]
    /\ rc' = [rc EXCEPT ![t] = [NoCall EXCEPT !.cycle = cycles + 1]]
    /\ UNCHANGED << config, file, last_results, previous_status, notify_on_drift, lock,
                    commands, History, Shutdown, Disk, probes, system >>

\* lock, clone the active scenario's checks, run_all_checks, from_results
Evaluate(t, outcome) ==
    /\ pc[t] = "rc_lock"
    /\ LockAvailable(lock)
    /\ lock' = t
    /\ LET checks == get_scenario_checks(config) IN
          rc' = [rc EXCEPT ![t] = [cycle |-> rc[t].cycle,
                                   scenario |-> config.active_scenario,
                                   checks |-> checks,
                                   probed |-> Dispatched(checks),
                                   results |-> run_all_checks(checks, outcome),
                                   status |-> from_results(run_all_checks(checks, outcome)),
                                   prev |-> previous_status,
                                   drifted |-> << >>,
                                   notify_calls |-> << >>,
                                   after_switch |-> after_switch]]
    /\ after_switch' = FALSE
    /\ pc' = [pc EXCEPT ![t] = "rc_drift"]
    /\ UNCHANGED << config, file, last_results, previous_status, notify_on_drift,
                    commands, cycles, baseline_scenario, baseline_cycle, results_cycle,
                    results_scenario,
                    fix_log, observed, Shutdown, Disk, system >>

\* the probes abstracted to their pass/fail outcome
RunChecksEvaluate(t) ==
    /\ \E outcome \in [1..Len(Dispatched(get_scenario_checks(config))) -> BOOLEAN] :
          Evaluate(t, outcome)
    /\ UNCHANGED probes

\* the same step with every dispatched check's probe reading the operating system
RunChecksProbe(t) ==
    LET d == Dispatched(get_scenario_checks(config)) IN
    \E inputs \in ProbeSeqs(d) :
        /\ Evaluate(t, [i \in 1..Len(d) |-> run_check(d[i], inputs[i]).passed])
        /\ probes' = [i \in 1..Len(d) |->
                        [check |-> d[i], input |-> inputs[i],
                         result |-> run_check(d[i], inputs[i])]]

\* the drift loop and the notification
RunChecksDrift(t) ==
    /\ pc[t] = "rc_drift"
    /\ LET d == DriftLoop(rc[t].results, 1, previous_status, << >>) IN
         /\ previous_status' = d.previous_status
         /\ baseline_scenario' =
              [x \in DOMAIN d.previous_status |->
                 IF \E i \in 1..Len(rc[t].results) : rc[t].results[i].id = x
                 THEN rc[t].scenario ELSE baseline_scenario[x]]
         /\ rc' = [rc EXCEPT ![t].drifted = d.drifted,
                             ![t].notify_calls =
                                IF ShouldNotify(notify_on_drift, d.drifted)
                                THEN << DriftedResults(rc[t].results, d.drifted) >>
                                ELSE << >>]
    /\ baseline_cycle' = rc[t].cycle
    /\ pc' = [pc EXCEPT ![t] = "rc_store"]
    /\ UNCHANGED << config, file, last_results, notify_on_drift, lock, commands, cycles,
                    results_cycle, results_scenario, after_switch, fix_log, observed,
                    Shutdown, Disk, probes, system >>

\* inner.last_results = results.clone(); return; the guard is dropped
RunChecksStore(t) ==
    /\ pc[t] = "rc_store"
    /\ last_results' = rc[t].results
    /\ results_cycle' = rc[t].cycle
    /\ results_scenario' = rc[t].scenario
    /\ lock' = Unlock(lock)
    /\ pc' = [pc EXCEPT ![t] = "idle"]
    /\ rc' = [rc EXCEPT ![t] = NoCall]
    /\ probes' = << >>
    /\ UNCHANGED << config, file, previous_status, notify_on_drift, commands, cycles,
                    baseline_scenario, baseline_cycle, after_switch, fix_log, observed,
                    Shutdown, Disk, system >>

(* ---- readers ---- *)
\* the reader's value is computed from the state it finds under the lock
Observe(op, value) ==
    observed' = [op |-> op, results_cycle |-> results_cycle, baseline_cycle |-> baseline_cycle]

ReaderFrame ==
    UNCHANGED << config, file, last_results, previous_status, notify_on_drift, lock, rc,
                 commands, cycles, baseline_scenario, baseline_cycle, results_cycle,
                 results_scenario,
                 after_switch, fix_log, Shutdown, Disk, probes, system >>

get_last_results ==
    /\ InCommand
    /\ Observe("get_last_results", last_results)
    /\ Return
    /\ ReaderFrame

get_status ==
    /\ InCommand
    /\ Observe("get_status", from_results(last_results))
    /\ Return
    /\ ReaderFrame

StatusText(status) ==
    IF status = "AllPassed" THEN "All OK"
    ELSE IF status = "SomeFailed" THEN "Some Issues" ELSE "Action Needed"

Tooltip(cfg, results) ==
    LET scenario_name == IF ActiveResolves(cfg) THEN ActiveScenario(cfg).name ELSE "Unknown" IN
    IF Len(results) = 0
    THEN << scenario_name, "No checks run yet", 0, 0 >>
    ELSE << scenario_name, StatusText(from_results(results)), PassedCount(results), Len(results) >>

get_tooltip ==
    /\ InCommand
    /\ Observe("get_tooltip", Tooltip(config, last_results))
    /\ Return
    /\ ReaderFrame

(* ---- setting mutators and check CRUD: all act on the active scenario ---- *)
\* what a mutator of the configuration leaves alone
ConfigFrame ==
    UNCHANGED << file, last_results, previous_status, lock, rc, commands, cycles, History,
                 Shutdown, Disk, probes, system >>

set_poll_interval(seconds) ==
    /\ InCommand
    /\ config' = IF ActiveResolves(config)
                 THEN WithActiveScenario(config,
                        [ActiveScenario(config) EXCEPT !.poll_interval_seconds = seconds])
                 ELSE config
    /\ Return
    /\ UNCHANGED notify_on_drift
    /\ ConfigFrame

toggle_check(id) ==
    /\ InCommand
    /\ config' = IF ActiveResolves(config) /\ FindCheck(ActiveScenario(config).checks, id) # 0
                 THEN LET i == FindCheck(ActiveScenario(config).checks, id) IN
                      WithActiveScenario(config,
                        [ActiveScenario(config) EXCEPT
                           !.checks[i].enabled = ~ActiveScenario(config).checks[i].enabled])
                 ELSE config
    /\ Return
    /\ UNCHANGED notify_on_drift
    /\ ConfigFrame

set_notify_on_drift(enabled) ==
    /\ InCommand
    /\ notify_on_drift' = enabled
    /\ config' = IF ActiveResolves(config)
                 THEN WithActiveScenario(config,
                        [ActiveScenario(config) EXCEPT !.notify_on_drift = enabled])
                 ELSE config
    /\ Return
    /\ ConfigFrame

add_check(check) ==
    /\ InCommand
    /\ config' = IF ActiveResolves(config)
                 THEN WithActiveScenario(config,
                        [ActiveScenario(config) EXCEPT
                           !.checks = Append(ActiveScenario(config).checks, check)])
                 ELSE config
    /\ Return
    /\ UNCHANGED notify_on_drift
    /\ ConfigFrame

remove_check(check_id) ==
    /\ InCommand
    /\ config' = IF ActiveResolves(config)
                 THEN WithActiveScenario(config,
                        [ActiveScenario(config) EXCEPT
                           !.checks = Retain(ActiveScenario(config).checks, check_id)])
                 ELSE config
    /\ Return
    /\ UNCHANGED notify_on_drift
    /\ ConfigFrame

update_check(check) ==
    /\ InCommand
    /\ config' = IF ActiveResolves(config) /\ FindCheck(ActiveScenario(config).checks, check.id) # 0
                 THEN LET i == FindCheck(ActiveScenario(config).checks, check.id) IN
                      WithActiveScenario(config,
                        [ActiveScenario(config) EXCEPT !.checks[i] = check])
                 ELSE config
    /\ Return
    /\ UNCHANGED notify_on_drift
    /\ ConfigFrame

(* ---- scenario commands ---- *)
\* mutant: set_active_scenario does not validate the identifier
ScenarioNotValidated(cfg, scenario_id) == TRUE

\* the validation of set_active_scenario
ScenarioExists(cfg, scenario_id) == scenario_id \in DOMAIN cfg.root.scenarios

set_active_scenario(scenario_id) ==
    /\ InCommand
    /\ IF ScenarioExists(config, scenario_id)
       THEN /\ config' = [config EXCEPT !.active_scenario = scenario_id]
            /\ previous_status' = EmptyMap
            /\ baseline_scenario' = EmptyMap
            /\ notify_on_drift' = IF scenario_id \in DOMAIN config.root.scenarios
                                  THEN config.root.scenarios[scenario_id].notify_on_drift
                                  ELSE TRUE
            /\ after_switch' = TRUE
       ELSE UNCHANGED << config, previous_status, baseline_scenario, notify_on_drift,
                         after_switch >>
    /\ Return
    /\ UNCHANGED << file, last_results, lock, rc, commands, cycles, baseline_cycle,
                    results_cycle, results_scenario, fix_log, observed, Shutdown, Disk,
                    probes, system >>

\* mutant: the insert is made whether or not the identifier exists
add_scenario_overwrite(id, scenario) ==
    /\ InCommand
    /\ config' = [config EXCEPT !.root.scenarios =
                      [k \in DOMAIN config.root.scenarios \cup {id} |->
                         IF k = id THEN scenario ELSE config.root.scenarios[k]]]
    /\ Return
    /\ UNCHANGED notify_on_drift
    /\ ConfigFrame

add_scenario(id, scenario) ==
    /\ InCommand
    /\ config' = IF id \in DOMAIN config.root.scenarios
                 THEN config
                 ELSE [config EXCEPT !.root.scenarios = (id :> scenario) @@ config.root.scenarios]
    /\ Return
    /\ UNCHANGED notify_on_drift
    /\ ConfigFrame

(* ---- persistence ---- *)
\* Config::save on the coordinator's configuration and path under one outcome
\* of the file system
SaveTo(io) ==
    \E r \in SaveResults(config, file, backup, io) :
        /\ backup' = r.backup
        /\ file' = r.file
        /\ persist' = [op |-> IF r.ok THEN "save" ELSE "save_failed", io |-> io,
                       prior |-> file, active |-> config.active_scenario,
                       scenarios |-> config.root.scenarios]

\* Config::save on a file system that does not fail: the backup copy when a
\* file exists, then the write
SaveToPath == SaveTo("ok")

\* AppState::save_config under one outcome of the file system; the Result goes
\* back to the caller
save_config_under(io) ==
    /\ InCommand
    /\ SaveTo(io)
    /\ Return
    /\ UNCHANGED << config, last_results, previous_status, notify_on_drift, lock, rc,
                    commands, cycles, History, Shutdown, probes, system >>

save_config == save_config_under("ok")

reload_config ==
    /\ InCommand
    /\ IF Load(file).ok
       THEN /\ notify_on_drift' = get_notify_on_drift(Load(file).config)
            /\ config' = Load(file).config
            /\ persist' = [persist EXCEPT
                             !.op = IF persist.op = "save" THEN "save_load" ELSE "load"]
       ELSE /\ persist' = [persist EXCEPT !.op = "load_failed"]
            /\ UNCHANGED << config, notify_on_drift >>
    /\ Return
    /\ UNCHANGED << file, last_results, previous_status, lock, rc, commands, cycles, History,
                    Shutdown, backup, probes, system >>

\* another program rewrites the document at the configuration path
ExternalFileEdit ==
    /\ commands < MaxCommands
    /\ commands' = commands + 1
    /\ \E doc \in ExternalDocs : file' = doc
    /\ persist' = [persist EXCEPT !.op = "edit"]
    /\ UNCHANGED << config, last_results, previous_status, notify_on_drift, lock, pc, rc,
                    cycles, History, Shutdown, backup, probes, system >>

(* ---- fix-all ---- *)
\* settings window: fixer::fix_all over the active checks and the failing ids
\* of the last results, then run_checks
FixAllClicked ==
    /\ InCommand
    /\ cycles < MaxCycles
    /\ fix_log' = fix_all(get_scenario_checks(config), FailingIds(last_results))
    /\ cycles' = cycles + 1
    /\ pc' = [pc EXCEPT !["ui"] = "rc_lock"]
    /\ rc' = [rc EXCEPT !["ui"] = [NoCall EXCEPT !.cycle = cycles + 1]]
    /\ UNCHANGED << config, file, last_results, previous_status, notify_on_drift, lock,
                    commands, baseline_scenario, baseline_cycle, results_cycle,
                    results_scenario,
                    after_switch, observed, Shutdown, Disk, probes, system >>

\* slint bridge: fix_check on every active check with a failing last result,
\* then run_checks
on_fix_all_clicked ==
    /\ InCommand
    /\ cycles < MaxCycles
    /\ fix_log' = BridgeFailedChecks(get_scenario_checks(config), last_results)
    /\ cycles' = cycles + 1
    /\ pc' = [pc EXCEPT !["ui"] = "rc_lock"]
    /\ rc' = [rc EXCEPT !["ui"] = [NoCall EXCEPT !.cycle = cycles + 1]]
    /\ UNCHANGED << config, file, last_results, previous_status, notify_on_drift, lock,
                    commands, baseline_scenario, baseline_cycle, results_cycle,
                    results_scenario,
                    after_switch, observed, Shutdown, Disk, probes, system >>

(* ---- src/main.rs: polling_loop. The poller at "idle" stands at the head of
        the while loop. ---- *)
\* the history counters stop counting at two
Bump(n) == IF n < 2 THEN n + 1 ELSE n

\* what a step of the loop outside run_checks leaves alone
PollFrame ==
    UNCHANGED << config, file, last_results, previous_status, notify_on_drift, lock,
                 commands, History, running, should_exit, Disk, probes, system >>

\* while running.load(..)
PollWhile ==
    /\ pc["poller"] = "idle"
    /\ IF RunningLoad(running)
       THEN /\ cycles < MaxCycles
            /\ pc' = [pc EXCEPT !["poller"] = "poll_interval"]
            /\ UNCHANGED halt
       ELSE /\ pc' = [pc EXCEPT !["poller"] = "done"]
            /\ halt' = [halt EXCEPT !.observed_cleared = TRUE]
    /\ UNCHANGED << rc, cycles, poll >>
    /\ PollFrame

\* let interval = app_state.get_poll_interval()
PollInterval ==
    /\ pc["poller"] = "poll_interval"
    /\ LockAvailable(lock)
    /\ poll' = [interval |-> get_poll_interval(config), i |-> 0]
    /\ pc' = [pc EXCEPT !["poller"] = "poll_for"]
    /\ UNCHANGED << rc, cycles, halt >>
    /\ PollFrame

\* mutant: the bound of the for loop is read from the configuration at every
\* increment
PollForRereads ==
    /\ pc["poller"] = "poll_for"
    /\ IF poll.i < get_poll_interval(config) * IncrementsPerSecond
       THEN IF running
            THEN /\ pc' = [pc EXCEPT !["poller"] = "poll_sleep"]
                 /\ UNCHANGED halt
            ELSE /\ pc' = [pc EXCEPT !["poller"] = "done"]
                 /\ halt' = [halt EXCEPT !.observed_cleared = TRUE]
       ELSE /\ pc' = [pc EXCEPT !["poller"] = "poll_check"]
            /\ UNCHANGED halt
    /\ UNCHANGED << rc, cycles, poll >>
    /\ PollFrame

\* the head of for _ in 0..(interval * 10), with the flag check of its body
PollFor ==
    /\ pc["poller"] = "poll_for"
    /\ IF poll.i < poll.interval * IncrementsPerSecond
       THEN IF ForLoopReturns(running)
            THEN /\ pc' = [pc EXCEPT !["poller"] = "done"]
                 /\ halt' = [halt EXCEPT !.observed_cleared = TRUE]
            ELSE /\ pc' = [pc EXCEPT !["poller"] = "poll_sleep"]
                 /\ UNCHANGED halt
       ELSE /\ pc' = [pc EXCEPT !["poller"] = "poll_check"]
            /\ UNCHANGED halt
    /\ UNCHANGED << rc, cycles, poll >>
    /\ PollFrame

\* thread::sleep(Duration::from_millis(100))
PollSleep ==
    /\ pc["poller"] = "poll_sleep"
    /\ poll' = [poll EXCEPT !.i = @ + 1]
    /\ halt' = IF running THEN halt ELSE [halt EXCEPT !.sleeps = Bump(@)]
    /\ pc' = [pc EXCEPT !["poller"] = "poll_for"]
    /\ UNCHANGED << rc, cycles >>
    /\ PollFrame

\* if running.load(..) after the sleep
PollCheck ==
    /\ pc["poller"] = "poll_check"
    /\ IF RunningLoad(running)
       THEN /\ pc' = [pc EXCEPT !["poller"] = "poll_call"]
            /\ UNCHANGED halt
       ELSE /\ pc' = [pc EXCEPT !["poller"] = "idle"]
            /\ halt' = [halt EXCEPT !.observed_cleared = TRUE]
    /\ UNCHANGED << rc, cycles, poll >>
    /\ PollFrame

\* app_state.run_checks()
PollRunChecks ==
    /\ pc["poller"] = "poll_call"
    /\ cycles' = cycles + 1
    /\ pc' = [pc EXCEPT !["poller"] = "rc_lock"]
    /\ rc' = [rc EXCEPT !["poller"] = [NoCall EXCEPT !.cycle = cycles + 1]]
    /\ halt' = IF running THEN halt ELSE [halt EXCEPT !.cycles = Bump(@)]
    /\ UNCHANGED poll
    /\ PollFrame

(* ---- src/main.rs: the MENU_EXIT handler and the join ---- *)
\* what a step of the handler leaves alone
ExitFrame ==
    UNCHANGED << config, last_results, previous_status, notify_on_drift, lock, rc, commands,
                 cycles, History, poll, halt, probes, system >>

\* the user confirms the exit
MenuExit ==
    /\ pc["ui"] = "idle"
    /\ pc' = [pc EXCEPT !["ui"] = "exit_save"]
    /\ UNCHANGED << file, running, should_exit, Disk >>
    /\ ExitFrame

\* app_state.save_config(), its error logged
ExitSaveConfig ==
    /\ pc["ui"] = "exit_save"
    /\ LockAvailable(lock)
    /\ SaveToPath
    /\ pc' = [pc EXCEPT !["ui"] = "exit_signal"]
    /\ UNCHANGED << running, should_exit >>
    /\ ExitFrame

\* app_state.signal_exit()
ExitSignal ==
    /\ pc["ui"] = "exit_signal"
    /\ should_exit' = SignalExitStores
    /\ pc' = [pc EXCEPT !["ui"] = "exit_store"]
    /\ UNCHANGED << file, running, Disk >>
    /\ ExitFrame

\* running.store(false, Ordering::SeqCst); break
ExitStore ==
    /\ pc["ui"] = "exit_store"
    /\ running' = FALSE
    /\ pc' = [pc EXCEPT !["ui"] = "join"]
    /\ UNCHANGED << file, should_exit, Disk >>
    /\ ExitFrame

\* polling_handle.join() returns once the poller has returned
Join ==
    /\ pc["ui"] = "join"
    /\ pc["poller"] = "done"
    /\ pc' = [pc EXCEPT !["ui"] = "exited"]
    /\ UNCHANGED << file, running, should_exit, Disk >>
    /\ ExitFrame

\* AppState::signal_exit called as a command of the coordinator
signal_exit ==
    /\ pc["ui"] = "cmd_lock"
    /\ should_exit' = SignalExitStores
    /\ observed' = [op |-> "signal_exit", results_cycle |-> results_cycle,
                    baseline_cycle |-> baseline_cycle]
    /\ Return
    /\ UNCHANGED << config, file, last_results, previous_status, notify_on_drift, lock, rc,
                    commands, cycles, baseline_scenario, baseline_cycle, results_cycle,
                    results_scenario,
                    after_switch, fix_log, running, poll, halt, Disk, probes, system >>

(* ---- the system ---- *)
Next ==
    \/ CallCommand
    \/ \E t \in Threads : CallRunChecks(t)
    \/ \E t \in Threads : RunChecksEvaluate(t)
    \/ \E t \in Threads : RunChecksDrift(t)
    \/ \E t \in Threads : RunChecksStore(t)
    \/ get_last_results
    \/ get_status
    \/ get_tooltip
    \/ \E seconds \in PollInputs : set_poll_interval(seconds)
    \/ \E id \in CheckIds : toggle_check(id)
    \/ \E enabled \in BOOLEAN : set_notify_on_drift(enabled)
    \/ \E check \in CheckInputs : add_check(check)
    \/ \E id \in CheckIds : remove_check(id)
    \/ \E check \in CheckInputs : update_check(check)
    \/ \E id \in ScenarioIds : set_active_scenario(id)
    \/ \E id \in ScenarioIds : add_scenario(id, ImportedScenario)
    \/ save_config
    \/ reload_config
    \/ ExternalFileEdit
    \/ FixAllClicked
    \/ on_fix_all_clicked

Spec == Init /\ [][Next]_vars

(* ---- the lock protocol under the scheduling the claims assume. Whether a
        call returns depends only on the lock and on the threads' positions,
        which every command moves alike (lock on entry, Return on exit), so the
        interactive caller is given one command of each shape: the readers, a
        mutator of the baseline, a mutator of the checks, and the two handlers
        that go on to call run_checks. ---- *)
LockCommand ==
    \/ get_last_results
    \/ get_status
    \/ get_tooltip
    \/ \E id \in CheckIds : toggle_check(id)
    \/ \E id \in ScenarioIds : set_active_scenario(id)
    \/ FixAllClicked
    \/ on_fix_all_clicked

LockNext ==
    \/ CallCommand
    \/ \E t \in Threads : CallRunChecks(t)
    \/ \E t \in Threads : RunChecksEvaluate(t)
    \/ \E t \in Threads : RunChecksDrift(t)
    \/ \E t \in Threads : RunChecksStore(t)
    \/ LockCommand

\* a thread inside the lock keeps stepping (weak fairness); a thread waiting at
\* lock() gets the mutex if it is free again and again (strong fairness)
FairSpec ==
    /\ Init /\ [][LockNext]_vars
    /\ \A t \in Threads : WF_vars(RunChecksDrift(t) \/ RunChecksStore(t))
    /\ \A t \in Threads : SF_vars(RunChecksEvaluate(t))
    /\ SF_vars(LockCommand)

(* ---- the polling loop and the shutdown: the poller runs polling_loop, the
        interactive caller changes the poll interval and exits. A thread that
        can step keeps stepping (weak fairness); the lock is only ever held by
        the poller's own run_checks. ---- *)
PollerStep ==
    \/ PollWhile
    \/ PollInterval
    \/ PollFor
    \/ PollSleep
    \/ PollCheck
    \/ PollRunChecks
    \/ RunChecksEvaluate("poller")
    \/ RunChecksDrift("poller")
    \/ RunChecksStore("poller")

PollNext ==
    \/ PollerStep
    \/ CallCommand
    \/ \E seconds \in PollInputs : set_poll_interval(seconds)
    \/ MenuExit
    \/ ExitSaveConfig
    \/ ExitSignal
    \/ ExitStore
    \/ Join

PollSpec ==
    /\ Init /\ [][PollNext]_vars
    /\ WF_vars(PollerStep)
    /\ WF_vars(Join)

(* ---- the polling loop while the interactive caller changes the poll
        interval, switches the scenario and exits ---- *)
SleepNext ==
    \/ PollerStep
    \/ CallCommand
    \/ \E seconds \in PollInputs : set_poll_interval(seconds)
    \/ \E id \in ScenarioIds : set_active_scenario(id)
    \/ MenuExit
    \/ ExitSaveConfig
    \/ ExitSignal
    \/ ExitStore
    \/ Join

SleepSpec == Init /\ [][SleepNext]_vars

(* ---- the coordinator's commands with signal_exit among them, issued by the
        interactive caller ---- *)
ExitNext ==
    \/ CallCommand
    \/ CallRunChecks("ui")
    \/ RunChecksEvaluate("ui")
    \/ RunChecksDrift("ui")
    \/ RunChecksStore("ui")
    \/ get_last_results
    \/ get_status
    \/ get_tooltip
    \/ \E seconds \in PollInputs : set_poll_interval(seconds)
    \/ \E id \in CheckIds : toggle_check(id)
    \/ \E enabled \in BOOLEAN : set_notify_on_drift(enabled)
    \/ \E check \in CheckInputs : add_check(check)
    \/ \E id \in CheckIds : remove_check(id)
    \/ \E check \in CheckInputs : update_check(check)
    \/ \E id \in ScenarioIds : set_active_scenario(id)
    \/ \E id \in ScenarioIds : add_scenario(id, ImportedScenario)
    \/ save_config
    \/ reload_config
    \/ FixAllClicked
    \/ on_fix_all_clicked
    \/ signal_exit

ExitSpec == Init /\ [][ExitNext]_vars

(* ---- the dispatcher and the probes on their own: a scenario loaded with any
        check list, evaluated by run_checks under every outcome of the reads ---- *)
CheckInit ==
    \E checks \in CheckLists :
        LET cfg == [DefaultConfig EXCEPT !.root.scenarios["gaming"].checks = checks]
        IN StartWith(cfg, Save(cfg))

CheckNext ==
    \/ \E t \in Threads : CallRunChecks(t)
    \/ \E t \in Threads : RunChecksProbe(t)
    \/ \E t \in Threads : RunChecksDrift(t)
    \/ \E t \in Threads : RunChecksStore(t)

CheckSpec == CheckInit /\ [][CheckNext]_vars

(* ---- persistence on its own: the program starts on whatever main.rs finds at
        the configuration path, and the interactive caller switches, edits,
        saves and reloads while another program may rewrite the file ---- *)
\* a second legacy document, with the other settings and two checks
LegacyDocQuiet ==
    [poll_interval_seconds |-> 30, notify_on_drift |-> FALSE,
     checks |-> << CheckConfig("game_mode", "RegistryDword", TRUE),
                   CheckConfig("power_plan", "PowerScheme", FALSE) >>]

\* the documents main.rs may find at the path when it starts
StartupFiles ==
    {NoFile, Garbage, LegacyDoc, LegacyDocQuiet, Save(DefaultConfig)} \cup ExternalDocs

\* mutant: a file that does not load counts as absent
PathExistsAndLoads(doc) == doc # NoFile /\ Load(doc).ok

\* path.exists()
PathExists(doc) == doc # NoFile

\* main.rs load_config under one outcome of the file system: Config::load when
\* the file exists, else the default configuration, saved to the path; the
\* Result, and what the path and the backup sibling hold afterwards
load_config(doc, bak, io) ==
    IF PathExists(doc)
    THEN {[ok |-> Load(doc).ok,
           config |-> IF Load(doc).ok THEN Load(doc).config ELSE NoConfig,
           file |-> doc, backup |-> bak]}
    ELSE {[ok |-> r.ok, config |-> IF r.ok THEN DefaultConfig ELSE NoConfig,
           file |-> r.file, backup |-> r.backup] :
          r \in SaveResults(DefaultConfig, doc, bak, io)}

\* main before load_config: whatever is at the configuration path
SaveInit == \E doc \in StartupFiles : StartAt(NoConfig, doc, "boot")

\* main.rs: load_config(..)?, then AppState::new and the spawn of the poller;
\* on Err main returns it and nothing else runs
Boot ==
    /\ pc["ui"] = "boot"
    /\ \E io \in FsOutcomes : \E r \in load_config(file, backup, io) :
          /\ file' = r.file
          /\ backup' = r.backup
          /\ config' = r.config
          /\ notify_on_drift' = get_notify_on_drift(r.config)
          /\ pc' = [t \in Threads |-> IF r.ok THEN "idle" ELSE "boot_err"]
          /\ persist' = [NothingSaved EXCEPT
                           !.op = IF ~r.ok THEN "boot_failed"
                                  ELSE IF file = NoFile THEN "boot_default"
                                  ELSE "boot_load",
                           !.io = io, !.prior = file]
    /\ UNCHANGED << last_results, previous_status, lock, rc, commands, cycles, History,
                    Shutdown, probes, system >>

CallFileCommand ==
    /\ pc["ui"] = "idle"
    /\ commands < MaxFileCommands
    /\ pc' = [pc EXCEPT !["ui"] = "cmd_lock"]
    /\ commands' = commands + 1
    /\ UNCHANGED << config, file, last_results, previous_status, notify_on_drift, lock, rc,
                    cycles, History, Shutdown, Disk, probes, system >>

SaveNext ==
    \/ Boot
    \/ CallFileCommand
    \/ \E seconds \in PollInputs : set_poll_interval(seconds)
    \/ \E check \in CheckInputs : add_check(check)
    \/ \E id \in ScenarioIds : set_active_scenario(id)
    \/ \E id \in ScenarioIds : add_scenario(id, ImportedScenario)
    \/ \E io \in FsOutcomes : save_config_under(io)
    \/ reload_config
    \/ ExternalFileEdit

SaveSpec == SaveInit /\ [][SaveNext]_vars

(* ---- the fixer on its own: a scenario loaded with any list of checks, and
        fix_all applied to it for any set of failing identifiers under every
        outcome of the operating system ---- *)
FixInit ==
    \E checks \in FixLists :
        LET cfg == [DefaultConfig EXCEPT !.root.scenarios["gaming"].checks = checks]
        IN StartWith(cfg, Save(cfg))

\* the Fix All button of the settings window: get_fix_counts for its label and
\* fixer::fix_all on the same checks and identifiers; probes keeps the
\* identifiers and the counts
ApplyFixAll ==
    /\ InCommand
    /\ \E failing_ids \in SUBSET FixIds(get_scenario_checks(config)) : \E os \in OsSeqs(get_scenario_checks(config)) :
          /\ fix_log' = FixLoop(get_scenario_checks(config), failing_ids, os, 1, << >>)
          /\ probes' = << [failing_ids |-> failing_ids,
                           counts |-> get_fix_counts(get_scenario_checks(config),
                                                     failing_ids)] >>
    /\ observed' = [observed EXCEPT !.op = "fix_all"]
    /\ Return
    /\ UNCHANGED << config, file, last_results, previous_status, notify_on_drift, lock, rc,
                    commands, cycles, baseline_scenario, baseline_cycle, results_cycle,
                    results_scenario,
                    after_switch, Shutdown, Disk, system >>

\* the "Fix All" click reaching the fixer: the call starts with no result yet
CallFixAll ==
    /\ pc["ui"] = "idle"
    /\ pc' = [pc EXCEPT !["ui"] = "cmd_lock"]
    /\ fix_log' = << >>
    /\ probes' = << >>
    /\ observed' = NothingObserved
    /\ UNCHANGED << config, file, last_results, previous_status, notify_on_drift, lock, rc,
                    commands, cycles, baseline_scenario, baseline_cycle, results_cycle,
                    results_scenario,
                    after_switch, Shutdown, Disk, system >>

FixNext ==
    \/ CallFixAll
    \/ ApplyFixAll

FixSpec == FixInit /\ [][FixNext]_vars

(* ---- the drift step on its own: a scenario loaded with any check list, the
        poller's cycles, and the drift step of run_checks applied once more to
        the results a cycle stored, with no evaluation in between ---- *)
\* app.rs 64-75 on last_results and the baseline as they stand; rc["ui"] keeps
\* the baseline it started from and the drifted set it built
DriftAgain ==
    /\ pc["ui"] = "idle"
    /\ LockAvailable(lock)
    /\ results_cycle >= 1
    /\ commands < MaxCommands
    /\ commands' = commands + 1
    /\ LET d == DriftLoop(last_results, 1, previous_status, << >>) IN
         /\ previous_status' = d.previous_status
         /\ rc' = [rc EXCEPT !["ui"].results = last_results,
                             !["ui"].prev = previous_status,
                             !["ui"].drifted = d.drifted]
    /\ UNCHANGED << config, file, last_results, notify_on_drift, lock, pc, cycles, History,
                    Shutdown, Disk, probes, system >>

DriftNext ==
    \/ CallRunChecks("poller")
    \/ RunChecksEvaluate("poller")
    \/ RunChecksDrift("poller")
    \/ RunChecksStore("poller")
    \/ DriftAgain

DriftSpec == CheckInit /\ [][DriftNext]_vars

(* ---- reload on its own: the poller's cycles, scenario switches, and the file
        at the configuration path rewritten, truncated or deleted under the
        program before it reloads ---- *)
\* another program deletes the file at the configuration path, or leaves text
\* there that is not JSON
ExternalFileDamage ==
    /\ \E doc \in {NoFile, Garbage} : file' = doc /\ file # doc
    /\ persist' = [persist EXCEPT !.op = "edit"]
    /\ UNCHANGED << config, last_results, previous_status, notify_on_drift, lock, pc, rc,
                    commands, cycles, History, Shutdown, backup, probes, system >>

ReloadNext ==
    \/ CallCommand
    \/ CallRunChecks("poller")
    \/ RunChecksEvaluate("poller")
    \/ RunChecksDrift("poller")
    \/ RunChecksStore("poller")
    \/ \E id \in ScenarioIds : set_active_scenario(id)
    \/ reload_config
    \/ ExternalFileEdit
    \/ ExternalFileDamage

ReloadSpec == Init /\ [][ReloadNext]_vars

(* ---- the editing commands on their own: the poller's cycles, and the
        interactive caller editing the active scenario, switching and adding
        scenarios ---- *)
EditNext ==
    \/ CallCommand
    \/ CallRunChecks("poller")
    \/ RunChecksEvaluate("poller")
    \/ RunChecksDrift("poller")
    \/ RunChecksStore("poller")
    \/ \E seconds \in PollInputs : set_poll_interval(seconds)
    \/ \E id \in CheckIds : toggle_check(id)
    \/ \E enabled \in BOOLEAN : set_notify_on_drift(enabled)
    \/ \E check \in CheckInputs : add_check(check)
    \/ \E id \in CheckIds : remove_check(id)
    \/ \E check \in CheckInputs : update_check(check)
    \/ \E id \in ScenarioIds : set_active_scenario(id)
    \/ \E id \in ScenarioIds : add_scenario(id, ImportedScenario)

EditSpec == Init /\ [][EditNext]_vars

(* ---- a fix and the evaluation of the same check against the settings of the
        operating system: one check, fixed, evaluated, and the settings changed
        by the user or another program in between ---- *)
WriteInit ==
    \E check \in WritableInputs :
        LET cfg == [DefaultConfig EXCEPT !.root.scenarios["gaming"].checks = << check >>]
        IN StartWith(cfg, Save(cfg))

\* fixer::fix_check on the check; a fix that succeeds has written the setting
FixOne ==
    /\ pc["ui"] = "idle"
    /\ \E os \in OsOutcomes(get_scenario_checks(config)[1].check_type) :
          LET res == fix_check(get_scenario_checks(config)[1], os) IN
          /\ fix_log' = << res >>
          /\ system' = IF res.success THEN Written(get_scenario_checks(config)[1], system)
                        ELSE system
    /\ last_results' = << >>
    /\ observed' = [NothingObserved EXCEPT !.op = "fix"]
    /\ UNCHANGED << config, file, previous_status, notify_on_drift, lock, pc, rc, commands,
                    cycles, baseline_scenario, baseline_cycle, results_cycle,
                    results_scenario, after_switch, Shutdown, Disk, probes >>

\* checkers::run_check on the check, its reads succeeding
EvaluateOne ==
    /\ pc["ui"] = "idle"
    /\ last_results' = << run_check_on(get_scenario_checks(config)[1], system) >>
    /\ observed' = [NothingObserved EXCEPT
                       !.op = IF observed.op = "fix" THEN "fix_evaluate" ELSE "evaluate"]
    /\ UNCHANGED << config, file, previous_status, notify_on_drift, lock, pc, rc, commands,
                    cycles, baseline_scenario, baseline_cycle, results_cycle,
                    results_scenario, after_switch, fix_log, Shutdown, Disk, probes,
                    system >>

\* the settings that differ from sys in the scheme, the mode or the value
SettingChanges(sys) ==
    ({[sys EXCEPT !.scheme = scheme] : scheme \in SchemeGuids}
       \cup {[sys EXCEPT !.mode = mode] : mode \in ModeGuids}
       \cup {[sys EXCEPT !.value = value] : value \in RegistryValues}) \ {sys}

\* the user or another program changes a setting
SystemChanges ==
    /\ \E changed \in SettingChanges(system) : system' = changed
    /\ observed' = [NothingObserved EXCEPT !.op = "changed"]
    /\ UNCHANGED << config, file, last_results, previous_status, notify_on_drift, lock, pc,
                    rc, commands, cycles, baseline_scenario, baseline_cycle, results_cycle,
                    results_scenario, after_switch, fix_log, Shutdown, Disk, probes >>

WriteNext ==
    \/ FixOne
    \/ EvaluateOne
    \/ SystemChanges

WriteSpec == WriteInit /\ [][WriteNext]_vars

(* ======================= the claims ======================= *)
Range(seq) == {seq[k] : k \in 1..Len(seq)}

Failing(results) == {i \in 1..Len(results) : ~results[i].passed}

\* a run_checks call that has finished its drift loop and not yet returned
AfterDrift(t) == pc[t] = "rc_store"

InFlight(t) == pc[t] \in {"rc_drift", "rc_store"}

\* C1: in every run_checks cycle a result is in the drifted set exactly when it
\* is failing and the baseline entry of its identifier (passing when absent)
\* was passing before the cycle, and afterwards the baseline stores that
\* result's pass/fail.
C1_DriftIffNewFailure ==
    \A t \in Threads : AfterDrift(t) =>
        \A i \in 1..Len(rc[t].results) :
            /\ (i \in Range(rc[t].drifted)) <=>
                   (~rc[t].results[i].passed /\ WasPassing(rc[t].prev, rc[t].results[i].id))
            /\ rc[t].results[i].id \in DOMAIN previous_status
            /\ previous_status[rc[t].results[i].id] = rc[t].results[i].passed

\* C2: after a successful set_active_scenario the baseline is empty, and the
\* drifted set of the next run_checks is exactly the failing results of that
\* cycle.
C2_SwitchResetsDrift ==
    /\ after_switch => previous_status = EmptyMap
    /\ \A t \in Threads : (AfterDrift(t) /\ rc[t].after_switch) =>
           Range(rc[t].drifted) = Failing(rc[t].results)

\* C3: after any command that changes the active scenario identifier, the
\* baseline holds no entry written by a cycle that evaluated another scenario.
C3_NoDriftAcrossScenarios ==
    [][config'.active_scenario # config.active_scenario =>
         \A x \in DOMAIN baseline_scenario' :
             baseline_scenario'[x] = config'.active_scenario]_vars

\* C4: in every cycle the notification collaborator is called at most once,
\* exactly when the cached notify flag is set and the drifted list is
\* non-empty, and it is handed the drifted results in evaluation order.
C4_NotifyOncePerCycle ==
    \A t \in Threads : AfterDrift(t) =>
        /\ Len(rc[t].notify_calls) <= 1
        /\ (Len(rc[t].notify_calls) = 1) <=> (notify_on_drift /\ Len(rc[t].drifted) > 0)
        /\ \A j, k \in 1..Len(rc[t].drifted) : j < k => rc[t].drifted[j] < rc[t].drifted[k]
        /\ Len(rc[t].notify_calls) = 1 =>
             /\ Len(rc[t].notify_calls[1]) = Len(rc[t].drifted)
             /\ \A k \in 1..Len(rc[t].drifted) :
                    rc[t].notify_calls[1][k] = rc[t].results[rc[t].drifted[k]]

C4_Witness ==
    \E t \in Threads :
        /\ AfterDrift(t)
        /\ Len(rc[t].notify_calls) = 1
        /\ Len(rc[t].notify_calls[1]) = 2

\* C5: no reader observes the last results of one cycle while the baseline
\* reflects another cycle.
C5_NoTornRead ==
    /\ observed.results_cycle = observed.baseline_cycle
    /\ lock = NoThread => results_cycle = baseline_cycle

C5_Witness ==
    /\ observed.op = "get_last_results"
    /\ observed.results_cycle = 1
    /\ pc["ui"] = "cmd_lock"
    /\ pc["poller"] = "rc_store"
    /\ baseline_cycle # results_cycle

\* C6: the results, the baseline update and the stored last results of a
\* run_checks all derive from one configuration snapshot: no mutating command
\* takes effect between its lock and its return.
C6_RunChecksSerialized ==
    \A t \in Threads : InFlight(t) =>
        /\ lock = t
        /\ \A u \in Threads \ {t} : ~InFlight(u)
        /\ rc[t].scenario = config.active_scenario
        /\ rc[t].checks = get_scenario_checks(config)
        /\ Len(rc[t].results) = Len(Dispatched(get_scenario_checks(config)))
        /\ \A i \in 1..Len(rc[t].results) :
               rc[t].results[i].id = Dispatched(get_scenario_checks(config))[i].id
        /\ AfterDrift(t) =>
               previous_status = DriftLoop(rc[t].results, 1, rc[t].prev, << >>).previous_status

C6_Witness ==
    /\ pc["poller"] = "rc_drift"
    /\ pc["ui"] = "cmd_lock"
    /\ config # DefaultConfig
    /\ results_cycle >= 1

\* C7: no command waits at lock() while it holds the lock, and every command
\* issued by either thread eventually completes and releases the lock.
C7_NoDeadlock ==
    /\ [](\A t \in Threads : lock = t => InFlight(t))
    /\ \A t \in Threads : (pc[t] # "idle") ~> (pc[t] = "idle")
    /\ (lock # NoThread) ~> (lock = NoThread)

C7_Witness ==
    /\ lock = "poller"
    /\ pc["ui"] = "rc_lock"
    /\ pc["poller"] = "rc_store"

\* C8: the active scenario identifier is always a key of the scenario mapping.
C8_ActiveScenarioResolves == config.active_scenario \in DOMAIN config.root.scenarios

C8_Witness ==
    /\ config.active_scenario = "imported"
    /\ pc["ui"] = "idle"

\* C9: no scenario ever contains two checks with the same identifier.
C9_UniqueCheckIds ==
    \A s \in DOMAIN config.root.scenarios :
        \A i, j \in 1..Len(config.root.scenarios[s].checks) :
            i # j => config.root.scenarios[s].checks[i].id # config.root.scenarios[s].checks[j].id

\* C10: no probe evaluation, baseline update or fix attempt is made for a check
\* whose enabled flag is false.
C10_OnlyEnabledChecks ==
    /\ \A t \in Threads : \A i \in 1..Len(rc[t].probed) : rc[t].probed[i].enabled
    /\ \A t \in Threads : AfterDrift(t) =>
           \A x \in DOMAIN previous_status :
               (x \notin DOMAIN rc[t].prev \/ previous_status[x] # rc[t].prev[x]) =>
                   \E i \in 1..Len(rc[t].probed) : rc[t].probed[i].id = x
    /\ \A i \in 1..Len(fix_log) : fix_log[i].enabled

\* C11: every scenario's poll interval is greater than zero in every reachable
\* state, so the polling loop sleeps at least one increment between two
\* consecutive run_checks cycles.
C11_PollIntervalPositive ==
    \A s \in DOMAIN config.root.scenarios :
        config.root.scenarios[s].poll_interval_seconds > 0

\* the positions of the enabled checks of a list, and the rank of one of them
EnabledAt(checks) == {j \in 1..Len(checks) : checks[j].enabled}

Rank(checks, j) == Cardinality({k \in EnabledAt(checks) : k <= j})

\* C12: run_all_checks returns exactly one result per enabled check of the
\* list, in the list's order and carrying that check's identifier, and no
\* result for a disabled check.
C12_OneResultPerEnabledCheck ==
    \A t \in Threads : InFlight(t) =>
        /\ Len(rc[t].results) = Cardinality(EnabledAt(rc[t].checks))
        /\ \A j \in EnabledAt(rc[t].checks) :
               rc[t].results[Rank(rc[t].checks, j)].id = rc[t].checks[j].id

C12_Witness ==
    \E t \in Threads :
        /\ InFlight(t)
        /\ Len(rc[t].checks) = 2
        /\ ~rc[t].checks[1].enabled
        /\ rc[t].checks[2].enabled
        /\ Len(rc[t].results) = 1
        /\ rc[t].results[1].id = "game_mode"

IsError(result) == ~result.passed /\ result.current_value = "ERROR" /\ result.message # ""

Unreadable(p) ==
    IF p.check.check_type = "HdrEnabled"
    THEN p.input.first = "err" /\ p.input.second = "err"
    ELSE p.input.params_ok /\ p.input.first = "err"

\* C14: for every check kind, when the read of the operating system the check
\* depends on could not be completed, the result is in the failed Error state
\* and carries a cause; it is never a pass and never an ordinary fail.
C14_UnreadableIsError ==
    \A i \in 1..Len(probes) : Unreadable(probes[i]) => IsError(probes[i].result)

\* C15: from_results is all-passed when the list is empty or every element
\* passed, all-failed when it is non-empty and no element passed, and
\* some-failed otherwise.
C15_OverallStatus ==
    \A t \in Threads : InFlight(t) =>
        LET R == rc[t].results IN
        rc[t].status =
            IF Len(R) = 0 \/ \A i \in 1..Len(R) : R[i].passed THEN "AllPassed"
            ELSE IF \A i \in 1..Len(R) : ~R[i].passed THEN "AllFailed"
            ELSE "SomeFailed"

C15_Witness ==
    \E t \in Threads :
        /\ InFlight(t)
        /\ Len(rc[t].results) = 2
        /\ rc[t].results[1].passed
        /\ ~rc[t].results[2].passed
        /\ rc[t].status = "SomeFailed"

PollerInRunChecks == pc["poller"] \in {"rc_lock", "rc_drift", "rc_store"}

\* C16: once the polling loop has observed the running flag cleared it never
\* calls run_checks again; after the flag is cleared the poller starts at most
\* one cycle (the one whose flag check had already passed); a run_checks in
\* flight when the flag is cleared is not cancelled: it stores its results.
C16_ShutdownPreventsNextCycle ==
    /\ [](halt.observed_cleared => pc["poller"] \in {"idle", "done"})
    /\ [](halt.cycles <= 1)
    /\ [][(~running /\ PollerInRunChecks) =>
            /\ pc'["poller"] \in {"rc_lock", "rc_drift", "rc_store", "idle"}
            /\ (pc["poller"] = "rc_store" /\ pc'["poller"] = "idle") =>
                   last_results' = rc["poller"].results]_vars

C16_Witness ==
    /\ ~running
    /\ halt.cycles = 1
    /\ pc["poller"] = "idle"
    /\ results_cycle = cycles
    /\ cycles >= 1

\* C17: the polling loop re-checks the running flag before every sleep
\* increment: after the flag is cleared the poller sleeps at most one further
\* increment and makes at most one run_checks call, then returns, and the main
\* thread's join returns.
C17_PollerTerminates ==
    /\ [](halt.sleeps <= 1 /\ halt.cycles <= 1)
    /\ (~running) ~> (pc["poller"] = "done")
    /\ (~running) ~> (pc["ui"] = "exited")

C17_Witness ==
    /\ ~running
    /\ halt.sleeps = 1
    /\ pc["poller"] = "done"
    /\ pc["ui"] = "exited"

\* C18: should_exit is false initially, true after any signal_exit call, and no
\* command of the coordinator resets it.
C18_ExitLatch ==
    /\ ~should_exit
    /\ [](observed.op = "signal_exit" => should_exit)
    /\ [][should_exit => should_exit']_vars

C18_Witness ==
    /\ should_exit
    /\ observed.op # "signal_exit"
    /\ pc["ui"] = "idle"
    /\ commands = MaxCommands

\* C19: save followed by load of the same path is a round trip: the load
\* succeeds and yields the scenario mapping of the configuration that was saved,
\* with the active and the default scenario both equal to the scenario that was
\* active at the save.
C19_SaveLoadRoundTrip ==
    [][(/\ persist.op = "save"
        /\ persist'.op \in {"save_load", "load_failed"}
        /\ persist.active \in DOMAIN persist.scenarios)
       => (/\ persist'.op = "save_load"
           /\ config'.root.scenarios = persist.scenarios
           /\ config'.active_scenario = persist.active
           /\ config'.root.default_scenario = persist.active)]_vars

C19_Witness ==
    /\ persist.op = "save_load"
    /\ IsV2(persist.prior)
    /\ persist.prior.default_scenario # persist.active
    /\ config.active_scenario = persist.active
    /\ config.root.default_scenario = persist.active

\* C20: after a save over an existing file the backup sibling holds the
\* content the file had immediately before that save (the copy precedes the
\* write), and the file written is in the scenario-mapping schema.
C20_BackupBeforeOverwrite ==
    persist.op = "save" =>
        /\ (persist.prior # NoFile => backup = persist.prior)
        /\ IsV2(file)
        /\ ~IsV1(file)

C20_Witness ==
    /\ persist.op = "save"
    /\ IsV1(persist.prior)
    /\ backup = persist.prior
    /\ IsV2(file)
    /\ backup # file

\* a step that applies Config::load to the file at the path: main's
\* load_config over an existing file, or reload_config
LoadApplied ==
    \/ pc["ui"] = "boot" /\ pc'["ui"] # "boot" /\ file # NoFile
    \/ reload_config

LoadFailed == persist'.op \in {"boot_failed", "load_failed"}

\* C21: when a file exists at the path and the copy to the backup sibling
\* fails, save returns an error and the file holds what it held before.
C21_CopyFailureAbortsSave ==
    (persist.op \in {"save", "save_failed"} /\ persist.io = "copy_fails"
       /\ persist.prior # NoFile)
    => (persist.op = "save_failed" /\ file = persist.prior)

C21_Witness ==
    /\ persist.op = "save_failed"
    /\ persist.io = "copy_fails"
    /\ file = persist.prior
    /\ file # Save(config)

\* C22: load fails, and the configuration in use is not replaced, whenever the
\* parsed or migrated document's default scenario is not a key of its scenario
\* mapping; whenever load succeeds the active scenario is the document's
\* default scenario and resolves.
C22_LoadValidatesDefault ==
    [][LoadApplied =>
        /\ (Parse(file).ok
              /\ Parse(file).root.default_scenario \notin DOMAIN Parse(file).root.scenarios)
           => (LoadFailed /\ config' = config)
        /\ ~LoadFailed
           => (/\ Parse(file).ok
               /\ config'.root = Parse(file).root
               /\ config'.active_scenario = Parse(file).root.default_scenario
               /\ config'.active_scenario \in DOMAIN config'.root.scenarios)]_vars

C22_Witness ==
    /\ persist.op = "load_failed"
    /\ IsV2(file)
    /\ file.default_scenario \notin DOMAIN file.scenarios
    /\ config.active_scenario \in DOMAIN config.root.scenarios
    /\ pc["ui"] = "idle"

\* C23: every legacy document loads as a configuration with exactly one
\* scenario, named "Default", whose poll interval, notify flag and check list
\* are the legacy values, and whose identifier is the default and the active
\* scenario.
C23_MigrationVerbatim ==
    [][(LoadApplied /\ IsV1(file) /\ ~IsV2(file)) =>
        /\ ~LoadFailed
        /\ config'.root.version = 2
        /\ DOMAIN config'.root.scenarios = {config'.active_scenario}
        /\ config'.root.default_scenario = config'.active_scenario
        /\ config'.root.scenarios[config'.active_scenario] =
              [name |-> "Default",
               poll_interval_seconds |-> file.poll_interval_seconds,
               notify_on_drift |-> file.notify_on_drift,
               checks |-> file.checks]]_vars

C23_Witness ==
    /\ persist.op = "boot_load"
    /\ IsV1(persist.prior)
    /\ ~persist.prior.notify_on_drift
    /\ Len(persist.prior.checks) = 2
    /\ config.active_scenario = "default"
    /\ config.root.scenarios["default"].checks = persist.prior.checks
    /\ ~notify_on_drift

\* C24: at start-up the default configuration, with its four built-in
\* scenarios, is used only when no file exists at the path, and is then saved
\* so that the file exists; a file that exists is never replaced, and when it
\* does not load the start-up fails.
C24_DefaultOnlyWhenAbsent ==
    [][(pc["ui"] = "boot" /\ pc'["ui"] # "boot") =>
        /\ (file = NoFile /\ pc'["ui"] = "idle")
           => (/\ config' = DefaultConfig
               /\ Cardinality(DOMAIN config'.root.scenarios) = 4
               /\ file' = Save(DefaultConfig))
        /\ file # NoFile => (file' = file /\ backup' = backup)
        /\ (file # NoFile /\ Load(file).ok)
           => (pc'["ui"] = "idle" /\ config' = Load(file).config)
        /\ (file # NoFile /\ ~Load(file).ok)
           => (pc'["ui"] = "boot_err" /\ config' = NoConfig)]_vars

C24_Witness ==
    /\ persist.op = "boot_failed"
    /\ persist.prior \in {Garbage} \cup ExternalDocs
    /\ file = persist.prior
    /\ config = NoConfig
    /\ pc["ui"] = "boot_err"

\* C25: get_fix_capability classifies every kind of check: the power kinds and
\* process-absent are Direct, a registry check is Direct under the user root
\* and RequiresAdmin under the machine root, process-present and the display
\* kinds are Manual with a reason.
C25_ClassifyTotal ==
    \A k \in 1..Len(fix_log) :
        LET cfg == fix_log[k].check
            cap == fix_log[k].capability
        IN /\ cap.kind \in {"Direct", "RequiresAdmin", "Manual"}
           /\ cfg.check_type \in {"PowerScheme", "PowerMode", "ProcessAbsent"}
              => cap.kind = "Direct"
           /\ (cfg.check_type \in {"RegistryDword", "RegistryString"}
                 /\ cfg.registry_path # NoPath)
              => /\ parse_root_key(cfg.registry_path) = "HKEY_CURRENT_USER"
                    => cap.kind = "Direct"
                 /\ parse_root_key(cfg.registry_path) = "HKEY_LOCAL_MACHINE"
                    => cap.kind = "RequiresAdmin"
           /\ cfg.check_type \in {"ProcessPresent", "DisplayResolution",
                                  "DisplayRefreshRate", "HdrEnabled"}
              => (cap.kind = "Manual" /\ cap.reason # "")

C25_Witness ==
    /\ Len(fix_log) = 2
    /\ fix_log[1].check.check_type = "RegistryString"
    /\ fix_log[1].check.registry_path[1] = "HKEY_LOCAL_MACHINE"
    /\ fix_log[1].capability.kind = "RequiresAdmin"
    /\ fix_log[2].check.check_type = "ProcessPresent"
    /\ fix_log[2].capability.kind = "Manual"

\* what the operating system did to a fix was a failure
OsFailed(os) == os \in {"err", "unavailable", "denied"}

\* C26: a Manual check gets an unsuccessful result that carries the reason, and
\* nothing is written or terminated; a Direct or RequiresAdmin check is
\* attempted, and a failure of the operating system comes back as an
\* unsuccessful result.
C26_FixFailuresReported ==
    \A k \in 1..Len(fix_log) :
        LET res == fix_log[k] IN
        IF res.capability.kind = "Manual"
        THEN /\ ~res.success
             /\ ~res.attempted
             /\ res.message = <<"Cannot auto-fix", res.capability.reason>>
        ELSE /\ res.success => res.attempted
             /\ OsFailed(res.os) => ~res.success

\* C27: fix_all returns one result for each enabled check whose identifier is
\* in failing_ids, in the checks' order, and none for any other check; a fix
\* that does not succeed does not stop the ones after it.
C27_FixAllOnePerFailing ==
    observed.op = "fix_all" =>
        LET Wanted(cfg) == cfg.enabled /\ cfg.id \in probes[1].failing_ids
            wanted == SelectSeq(get_scenario_checks(config), Wanted)
        IN /\ Len(fix_log) = Len(wanted)
           /\ \A k \in 1..Len(wanted) :
                 fix_log[k].check = wanted[k] /\ fix_log[k].check_id = wanted[k].id

C27_Witness ==
    /\ observed.op = "fix_all"
    /\ Len(get_scenario_checks(config)) = 2
    /\ Len(fix_log) = 2
    /\ ~fix_log[1].success
    /\ fix_log[2].success

\* a reader of the last results returns
ReaderReturns == get_last_results \/ get_status \/ get_tooltip

\* C28: after set_active_scenario has succeeded, get_last_results, get_status
\* and get_tooltip do not report results computed for another scenario: until
\* the next cycle the result set is empty or belongs to the active scenario.
C28_ResultsResetOnSwitch ==
    [][(ReaderReturns /\ after_switch)
       => (last_results = << >> \/ results_scenario = config.active_scenario)]_vars

\* C29: the cached notify flag equals the notify-on-drift flag of the active
\* scenario in every state.
C29_NotifyCacheCoherent ==
    ActiveResolves(config)
    => notify_on_drift = config.root.scenarios[config.active_scenario].notify_on_drift

C29_Witness ==
    /\ ~notify_on_drift
    /\ config.active_scenario = "gaming"
    /\ ~config.root.scenarios["gaming"].notify_on_drift
    /\ commands = 2
    /\ pc["ui"] = "idle"

\* C30: the drift step applied a second time to the same result set, with no
\* evaluation in between, builds an empty drifted set and leaves the baseline
\* as the first application left it.
C30_DriftIdempotent ==
    [][DriftAgain => (rc'["ui"].drifted = << >> /\ previous_status' = previous_status)]_vars

\* the results of fix_all whose check has capability kind
FixedOfKind(kind) == {k \in 1..Len(fix_log) : fix_log[k].capability.kind = kind}

\* C31: get_fix_counts returns (direct, requires-elevation, manual) counts whose
\* sum is the number of enabled checks whose identifier is in failing_ids, the
\* number of results fix_all returns for the same arguments, each check in the
\* bucket get_fix_capability assigns it, whatever the operating system does.
C31_FixCountsMatchFixAll ==
    observed.op = "fix_all" =>
        LET counts == probes[1].counts
            checks == get_scenario_checks(config)
            failing == {i \in 1..Len(checks) :
                          checks[i].enabled /\ checks[i].id \in probes[1].failing_ids}
        IN /\ counts.direct + counts.admin + counts.manual = Cardinality(failing)
           /\ counts.direct + counts.admin + counts.manual = Len(fix_log)
           /\ counts.direct = Cardinality(FixedOfKind("Direct"))
           /\ counts.admin = Cardinality(FixedOfKind("RequiresAdmin"))
           /\ counts.manual = Cardinality(FixedOfKind("Manual"))

C31_Witness ==
    /\ observed.op = "fix_all"
    /\ Len(get_scenario_checks(config)) = 2
    /\ ~get_scenario_checks(config)[1].enabled
    /\ get_scenario_checks(config)[1].id \in probes[1].failing_ids
    /\ probes[1].counts = [direct |-> 0, admin |-> 1, manual |-> 0]
    /\ ~fix_log[1].success

\* the instances of the process that the operating system terminated
Killed(os) == {i \in 1..Len(Instances(os)) : Instances(os)[i] = "killed"}

\* C33: the fix of a process-absent check that names a process succeeds
\* whenever the enumeration of processes succeeds, and reports the number of
\* instances terminated; with none terminated it still succeeds.
C33_ProcessAbsentFixSucceeds ==
    \A k \in 1..Len(fix_log) :
        LET res == fix_log[k] IN
        (res.check.check_type = "ProcessAbsent" /\ res.check.process_name # Absent)
        => /\ res.success = (res.os # "err")
           /\ (res.os # "err" /\ Killed(res.os) # {})
              => res.message = <<"Terminated", Cardinality(Killed(res.os))>>
           /\ (res.os # "err" /\ Killed(res.os) = {})
              => res.message = <<"is not running">>

C33_Witness ==
    /\ Len(fix_log) = 2
    /\ fix_log[1].check.check_type = "ProcessAbsent"
    /\ fix_log[1].os = "none_running"
    /\ fix_log[1].success
    /\ fix_log[2].os = "one_of_two"
    /\ fix_log[2].message = <<"Terminated", 1>>

\* a document Config::load cannot turn into a configuration: no file, text that
\* is not JSON, or a default scenario that is not among the scenarios
Unloadable(doc) ==
    \/ doc = NoFile
    \/ doc = Garbage
    \/ "default_scenario" \in DOMAIN doc /\ doc.default_scenario \notin DOMAIN doc.scenarios

\* C34: a reload_config that finds an unreadable or malformed file, or one
\* whose default scenario does not resolve, returns the error and leaves the
\* configuration, the active scenario, the cached notify flag, the drift
\* baseline and the last results as they were, with the lock released.
C34_FailedReloadChangesNothing ==
    [][(reload_config /\ Unloadable(file)) =>
        /\ persist'.op = "load_failed"
        /\ config' = config
        /\ notify_on_drift' = notify_on_drift
        /\ previous_status' = previous_status
        /\ last_results' = last_results
        /\ LockAvailable(lock')
        /\ pc'["ui"] = "idle"]_vars

C34_Witness ==
    /\ persist.op = "load_failed"
    /\ file = Garbage
    /\ config.active_scenario = "productivity"
    /\ ~notify_on_drift
    /\ last_results # << >>
    /\ previous_status # EmptyMap
    /\ LockAvailable(lock)
    /\ pc["ui"] = "idle"

EditStep ==
    \/ \E seconds \in PollInputs : set_poll_interval(seconds)
    \/ \E id \in CheckIds : toggle_check(id)
    \/ \E enabled \in BOOLEAN : set_notify_on_drift(enabled)
    \/ \E check \in CheckInputs : add_check(check)
    \/ \E id \in CheckIds : remove_check(id)
    \/ \E check \in CheckInputs : update_check(check)

\* the active scenario holds a check with this identifier
HasCheck(id) == \E i \in 1..Len(get_scenario_checks(config)) : get_scenario_checks(config)[i].id = id

\* C36: add_check, remove_check, update_check, toggle_check, set_poll_interval
\* and set_notify_on_drift leave every scenario but the active one, the active
\* scenario identifier, the drift baseline and the last results unchanged; with
\* the identifier of no check, remove, update and toggle change nothing.
C36_EditsOnlyActiveScenario ==
    [][/\ EditStep =>
            /\ config'.active_scenario = config.active_scenario
            /\ config'.root.default_scenario = config.root.default_scenario
            /\ DOMAIN config'.root.scenarios = DOMAIN config.root.scenarios
            /\ \A k \in DOMAIN config.root.scenarios \ {config.active_scenario} :
                  config'.root.scenarios[k] = config.root.scenarios[k]
            /\ previous_status' = previous_status
            /\ last_results' = last_results
       /\ \A id \in CheckIds :
            ((toggle_check(id) \/ remove_check(id)) /\ ~HasCheck(id)) => config' = config
       /\ \A check \in CheckInputs :
            (update_check(check) /\ ~HasCheck(check.id)) => config' = config]_vars

C36_Witness ==
    /\ config.active_scenario = "gaming"
    /\ get_scenario_checks(config) = << >>
    /\ "power_plan" \in DOMAIN previous_status
    /\ last_results # << >>
    /\ config.root.scenarios["productivity"] = create_productivity_scenario
    /\ commands >= 1
    /\ pc["ui"] = "idle"

\* C38: a registry check is classified Direct only when its path is under the
\* user root the write adapter opens, and RequiresAdmin only when it is under
\* the machine root: no path whose root the adapter rejects is classified
\* Direct or RequiresAdmin.
C38_ClassifierAgreesWithAdapter ==
    \A k \in 1..Len(fix_log) :
        LET cfg == fix_log[k].check
            cap == fix_log[k].capability
        IN (cfg.check_type \in {"RegistryDword", "RegistryString"}
              /\ cfg.registry_path # NoPath)
           => /\ cap.kind = "Direct"
                 => parse_root_key(cfg.registry_path) = "HKEY_CURRENT_USER"
              /\ cap.kind = "RequiresAdmin"
                 => parse_root_key(cfg.registry_path) = "HKEY_LOCAL_MACHINE"

\* the one check of the scenario, and its evaluation
TheCheck == get_scenario_checks(config)[1]

Evaluated == observed.op \in {"evaluate", "fix_evaluate"}

\* C32: an expected value of high performance passes when the active scheme is
\* high performance or ultimate performance; an expected value of ultimate
\* performance, balanced or power saver passes for exactly that scheme; the
\* result depends on the expected value and the active scheme alone.
C32_SchemeAliasing ==
    (Evaluated /\ TheCheck.check_type = "PowerScheme") =>
        LET expected == TheCheck.expected_value
            passed == last_results[1].passed
        IN /\ expected = "high_performance"
              => passed = (system.scheme \in {"GUID_HIGH_PERFORMANCE",
                                              "GUID_ULTIMATE_PERFORMANCE"})
           /\ expected = "ultimate_performance"
              => passed = (system.scheme = "GUID_ULTIMATE_PERFORMANCE")
           /\ expected = "balanced" => passed = (system.scheme = "GUID_BALANCED")
           /\ expected = "power_saver" => passed = (system.scheme = "GUID_POWER_SAVER")

C32_Witness ==
    /\ Evaluated
    /\ TheCheck.check_type = "PowerScheme"
    /\ TheCheck.expected_value = "high_performance"
    /\ system.scheme = "GUID_ULTIMATE_PERFORMANCE"
    /\ last_results[1].passed

\* C37: for a power-scheme, power-mode, registry-dword or registry-string
\* check, when the fix reports success and nothing else changes the settings,
\* the evaluation of the same check that follows passes, whatever expected
\* text the fix accepted.
C37_FixThenEvaluatePasses ==
    (observed.op = "fix_evaluate" /\ fix_log[1].success) => last_results[1].passed

\* the poll interval of the active scenario as the configuration has it
ConfiguredInterval == config.root.scenarios[config.active_scenario].poll_interval_seconds

\* C39: the polling loop reads the active scenario's poll interval once, at the
\* start of a cycle, and calls run_checks after exactly 10 x that interval
\* sleep increments; a set_poll_interval or a scenario switch during the sleep
\* does not change the wait of the cycle under way.
C39_IntervalReadOncePerCycle ==
    /\ [][PollInterval => (poll'.interval = ConfiguredInterval /\ poll'.i = 0)]_vars
    /\ [][pc["poller"] \in {"poll_for", "poll_sleep", "poll_check", "poll_call"}
            => poll'.interval = poll.interval]_vars
    /\ [](pc["poller"] \in {"poll_check", "poll_call"} => poll.i = 10 * poll.interval)
    /\ [][PollRunChecks => (poll.i = 10 * poll.interval /\ pc'["poller"] = "rc_lock")]_vars
    /\ [][pc["poller"] \in {"rc_lock", "rc_drift", "rc_store"}
            => pc'["poller"] \in {"rc_lock", "rc_drift", "rc_store", "idle"}]_vars

C39_Witness ==
    /\ pc["poller"] = "poll_call"
    /\ poll.interval = 5
    /\ poll.i = 50
    /\ config.active_scenario = "productivity"
    /\ ConfiguredInterval = 10
    /\ running

====
